---- MODULE Spec2Model ----
(***************************************************************************)
(* Verification model of the jsons library: the streaming JSON Writer      *)
(* (src/src/jsons/Writer.h) and the pull Reader with its Tokenizer         *)
(* (src/src/jsons/Reader.h, Tokenizer.h).                                  *)
(*                                                                         *)
(* Characters are one-character strings, texts are sequences of them.      *)
(***************************************************************************)
EXTENDS Integers, Sequences, FiniteSets, TLC

VARIABLES failed, stack, stackIndex, allowed, output, room, oob,
          last, budget, nestLeft, plan,
          tokenizer, frames, seen, mode, doc, rpc, steps

wvars == <<failed, stack, stackIndex, allowed, output, room, oob>>
cvars == <<last, budget, nestLeft, plan>>
rvars == <<tokenizer, frames, seen, mode, doc, rpc, steps>>
vars == <<failed, stack, stackIndex, allowed, output, room, oob,
          last, budget, nestLeft, plan,
          tokenizer, frames, seen, mode, doc, rpc, steps>>

(* ------------------------------ bounds -------------------------------- *)
\* calls of any kind a caller makes in one run
MaxCalls == 5
\* leading openList() calls of a deep-nesting caller
MaxNest == 22
\* calls of any kind a deep-nesting caller makes after its leading opens
MaxTail == 2
\* iterations of the end() loop followed while the stack index is out of range
MaxWild == 1
\* calls a free caller of the Reader makes
MaxSteps == 6

(* --------------------------- Writer constants ------------------------- *)
SEPARATOR == ","
OBJECT_BEGIN == "{"
OBJECT_END == "}"
LIST_BEGIN == "["
LIST_END == "]"
STRING_BEGIN == "\""
STRING_END == "\""
PROPERTY_BEGIN == "\""
PROPERTY_END == "\""
PROPERTY_VALUE_SEPARATOR == ":"
BACKSLASH == "\\"

INSERT_VALUE == "INSERT_VALUE"
INSERT_STRING == "INSERT_STRING"
OPEN_LIST == "OPEN_LIST"
OPEN_OBJECT == "OPEN_OBJECT"
START_PROPERTY == "START_PROPERTY"
CLOSE == "CLOSE"
NOTHING == {}

DataStructure == {"None", "EmptyObject", "Object", "EmptyList", "List"}

MAX_STACK == 20

\* size_t is an unsigned type: _stackIndex arithmetic wraps modulo 2^SIZE_BITS
SIZE_BITS == 16
SIZE_MOD == 2 ^ SIZE_BITS

\* a byte read outside _stack is not a value the Writer stored: any enumerator,
\* or a byte that is none of them
Wild == DataStructure \cup {"Other"}

ValueOps == {INSERT_VALUE, INSERT_STRING, OPEN_LIST, OPEN_OBJECT}

(* ----------------------------- inputs --------------------------------- *)
Nothing == "nothing"
Booleans == {"true", "false", Nothing}
Numbers == {7, -10}
Strings == {<<"a">>, <<"\"">>, <<"\\", "n">>}
Names == {<<"k">>, <<"\"">>}

Digit(d) == CASE d = 0 -> "0" [] d = 1 -> "1" [] d = 2 -> "2" [] d = 3 -> "3"
              [] d = 4 -> "4" [] d = 5 -> "5" [] d = 6 -> "6" [] d = 7 -> "7"
              [] d = 8 -> "8" [] d = 9 -> "9"

RECURSIVE Unsigned(_)
Unsigned(n) == IF n < 10 THEN <<Digit(n)>> ELSE Unsigned(n \div 10) \o <<Digit(n % 10)>>

\* snprintf(buffer, 12, "%i", value)
FormatInt(n) == IF n < 0 THEN <<"-">> \o Unsigned(0 - n) ELSE Unsigned(n)

(* ------------------------- Writer state record ------------------------ *)
\* The Writer's fields as one record, so that a call can be composed of steps.
W == [failed |-> failed, stack |-> stack, stackIndex |-> stackIndex,
      allowed |-> allowed, output |-> output, room |-> room, oob |-> oob]

InRange(i) == i \in 0..(MAX_STACK - 1)

\* _stack[i] read: the stored state inside the array, an arbitrary byte outside
Load(w, i) == IF InRange(i) THEN {w.stack[i]} ELSE Wild

\* _stack[i] = v: inside the array the cell changes; outside, the store lands in
\* memory that is not the array (recorded in oob, the array keeps its cells)
Store(w, i, v) == IF InRange(i) THEN [w EXCEPT !.stack[i] = v]
                  ELSE [w EXCEPT !.oob = TRUE]

Touch(w, i) == IF InRange(i) THEN w ELSE [w EXCEPT !.oob = TRUE]

\* _output.write(text): room is the number of characters the Output takes
\* before its one short write (below zero: it takes everything). At the short
\* write it takes what fits and reports that count; from then on it takes
\* everything again, so that a later write would show in output.
written(w, text) ==
  IF w.room < 0 \/ Len(text) <= w.room
  THEN [w EXCEPT !.output = @ \o text,
                 !.room = IF @ < 0 THEN @ ELSE @ - Len(text)]
  ELSE [w EXCEPT !.output = @ \o SubSeq(text, 1, w.room),
                 !.room = -1, !.failed = TRUE]

\* a write that is made whether or not the Writer has failed
write_always(w, text) ==
  IF w.failed THEN [written(w, text) EXCEPT !.failed = TRUE] ELSE written(w, text)

\* _failed = _failed || (_output.write(text) != length): no write once failed
write(w, text) == IF w.failed THEN w ELSE written(w, text)

allow(w, ops) == [w EXCEPT !.allowed = ops]

isAllowed(w, op) == op \in w.allowed

isStackAvailable(w) == w.stackIndex < MAX_STACK

isStackEmpty(w) == w.stackIndex = 0 /\ w.stack[0] = "None"

replace(w, value) == Store(w, w.stackIndex, value)

\* push: <<result, writer>>
push(w, value) ==
  IF ~isStackAvailable(w) THEN <<FALSE, w>>
  ELSE LET i == IF isStackEmpty(w) THEN w.stackIndex ELSE w.stackIndex + 1
       IN <<TRUE, Store([w EXCEPT !.stackIndex = i], i, value)>>

\* _failed = _failed || !push(value)
pushOrFail(w, value) ==
  IF w.failed THEN w
  ELSE LET r == push(w, value)
       IN IF r[1] THEN r[2] ELSE [r[2] EXCEPT !.failed = TRUE]

\* pop: the set of <<value, writer>> it can return
pop(w) ==
  IF isStackEmpty(w) THEN {<<"None", w>>}
  ELSE LET i == (w.stackIndex + SIZE_MOD - 1) % SIZE_MOD
           from == (i + 1) % SIZE_MOD
       IN {<<v, Touch([w EXCEPT !.stackIndex = i], from)>> : v \in Load(w, from)}

\* the text of a string or property name between its quotes
RECURSIVE Escaped(_)
Escaped(s) ==
  IF s = <<>> THEN <<>>
  ELSE (IF Head(s) \in {"\\", "\""} THEN <<BACKSLASH, Head(s)>> ELSE <<Head(s)>>)
       \o Escaped(Tail(s))

\* a character loop that puts the backslash before the quote only
RECURSIVE writeEscaped_quoteOnly(_, _)
writeEscaped_quoteOnly(w, s) ==
  IF w.failed \/ s = <<>> THEN w
  ELSE writeEscaped_quoteOnly(write(IF Head(s) = "\"" THEN write(w, <<BACKSLASH>>) ELSE w,
                                    <<Head(s)>>), Tail(s))

\* the character loop of INSERT_STRING and START_PROPERTY
RECURSIVE writeEscaped(_, _)
writeEscaped(w, s) ==
  IF w.failed \/ s = <<>> THEN w
  ELSE LET c == Head(s)
           w1 == IF c \in {"\\", "\""} THEN write(w, <<BACKSLASH>>) ELSE w
       IN writeEscaped(write(w1, <<c>>), Tail(s))

\* switch (peek()) after a value or string was written; t is the value peek() read
afterInsert(w, t) ==
  CASE t = "EmptyObject" -> allow(replace(w, "Object"), {START_PROPERTY, CLOSE})
    [] t = "Object" -> allow(w, {START_PROPERTY, CLOSE})
    [] t = "EmptyList" -> allow(replace(w, "List"), ValueOps \cup {CLOSE})
    [] t = "List" -> allow(w, ValueOps \cup {CLOSE})
    [] t = "None" -> allow(w, NOTHING)
    [] OTHER -> [w EXCEPT !.failed = TRUE]

\* the inner switch (peek()) of CLOSE; no default branch
afterClose(w, t) ==
  CASE t \in {"EmptyObject", "Object"} -> allow(w, {START_PROPERTY, CLOSE})
    [] t \in {"EmptyList", "List"} -> allow(w, ValueOps \cup {CLOSE})
    [] t = "None" -> allow(w, NOTHING)
    [] OTHER -> w

\* the first switch (peek()) of OPEN_LIST and OPEN_OBJECT
beforeOpen(w, t) ==
  CASE t = "EmptyList" -> replace(w, "List")
    [] t = "List" -> write(w, <<SEPARATOR>>)
    [] OTHER -> w

\* the switch (op) of evaluate: the set of Writer states it can end in
dispatch(w, op, value) ==
       CASE op = INSERT_VALUE ->
         { afterInsert(write(IF t = "List" THEN write(w0, <<SEPARATOR>>) ELSE w0, value), t)
           : t \in Load(w, w.stackIndex), w0 \in {Touch(w, w.stackIndex)} }
       [] op = INSERT_STRING ->
         { afterInsert(
             write(writeEscaped(write(IF t = "List" THEN write(w0, <<SEPARATOR>>) ELSE w0,
                                      <<STRING_BEGIN>>), value), <<STRING_END>>), t)
           : t \in Load(w, w.stackIndex), w0 \in {Touch(w, w.stackIndex)} }
       [] op = OPEN_LIST ->
         { allow(pushOrFail(write(beforeOpen(w0, t), <<LIST_BEGIN>>), "EmptyList"),
                 ValueOps \cup {CLOSE})
           : t \in Load(w, w.stackIndex), w0 \in {Touch(w, w.stackIndex)} }
       [] op = OPEN_OBJECT ->
         { allow(pushOrFail(write(beforeOpen(w0, t), <<OBJECT_BEGIN>>), "EmptyObject"),
                 {START_PROPERTY, CLOSE})
           : t \in Load(w, w.stackIndex), w0 \in {Touch(w, w.stackIndex)} }
       [] op = START_PROPERTY ->
         { LET w1 == CASE t = "EmptyObject" -> replace(w0, "Object")
                       [] t = "Object" -> write(w0, <<SEPARATOR>>)
                       [] OTHER -> [w0 EXCEPT !.failed = TRUE]
               w2 == writeEscaped(write(w1, <<PROPERTY_BEGIN>>), value)
           IN allow(write(write(w2, <<PROPERTY_END>>), <<PROPERTY_VALUE_SEPARATOR>>), ValueOps)
           : t \in Load(w, w.stackIndex), w0 \in {Touch(w, w.stackIndex)} }
       [] op = CLOSE ->
         UNION { LET v == p[1]
                     w1 == p[2]
                 IN CASE v \in {"EmptyObject", "Object"} ->
                           { afterClose(Touch(write(w1, <<OBJECT_END>>), w1.stackIndex), t)
                             : t \in Load(w1, w1.stackIndex) }
                      [] v \in {"EmptyList", "List"} ->
                           { afterClose(Touch(write(w1, <<LIST_END>>), w1.stackIndex), t)
                             : t \in Load(w1, w1.stackIndex) }
                      [] OTHER -> {[w1 EXCEPT !.failed = TRUE]}
                 : p \in pop(w) }
       [] OTHER -> {[w EXCEPT !.failed = TRUE]}

\* a flag that reports the last call only: cleared on entry, never latched
evaluate_perCall(w, op, value) ==
  IF ~isAllowed(w, op) THEN {[w EXCEPT !.failed = TRUE]}
  ELSE dispatch([w EXCEPT !.failed = FALSE], op, value)

\* evaluate(op, value): the set of Writer states the call can end in
evaluate(w, op, value) ==
  IF w.failed \/ ~isAllowed(w, op) THEN {[w EXCEPT !.failed = TRUE]}
  ELSE dispatch(w, op, value)

\* end(): while (!failed() && peek() != None) close();
\* wild counts the iterations still followed at an out-of-range stack index
RECURSIVE endLoop(_, _)
endLoop(w, wild) ==
  IF w.failed THEN {w}
  ELSE LET inside == InRange(w.stackIndex)
           tops == IF inside \/ wild > 0 THEN Load(w, w.stackIndex) ELSE {"None"}
           w0 == Touch(w, w.stackIndex)
       IN UNION { IF t = "None" THEN {w0}
                  ELSE UNION { endLoop(c, IF inside THEN wild ELSE wild - 1)
                               : c \in evaluate(w0, CLOSE, <<>>) }
                  : t \in tops }

end(w) == endLoop(w, MaxWild)

(* ------------------------------ Tokenizer ----------------------------- *)
\* The terminating zero of the C strings, and the whitespace set skip() uses
\* by default.
NUL == "NUL"
WHITESPACE == {" ", "\r", "\n", "\t"}

\* StoringTokenizer<Input, max_token_length, 2u>
MAX_TOKEN_LENGTH == 6
MAX_TOKENS == 2

\* The Tokenizer's fields as one record t: input (the characters the Input has
\* not delivered yet), chunk (the most characters one readString delivers, 0
\* for no limit), inputCharsRead, aborted, abortReason, buffer, bufferLength,
\* stopPosition, stopChar, tokenStorage; ret (the character the last peek,
\* nextUntil or nextWhile returned) and crashed (a block move ran with a
\* length that wrapped below zero, or beyond the buffer).
TokenizerInit(text, chunk) ==
  [input |-> text, chunk |-> chunk, inputCharsRead |-> 0, aborted |-> FALSE,
   abortReason |-> "", buffer |-> [i \in 0..MAX_TOKEN_LENGTH |-> NUL],
   bufferLength |-> 0, stopPosition |-> 0, stopChar |-> NUL,
   tokenStorage |-> [i \in 0..(MAX_TOKENS - 1) |-> <<>>],
   ret |-> NUL, crashed |-> FALSE]

\* a call returns c
Return(t, c) == [t EXCEPT !.ret = c]

\* _buffer[i]
At(t, i) == IF i \in 0..MAX_TOKEN_LENGTH THEN t.buffer[i] ELSE NUL

RECURSIVE strspn(_, _, _)
strspn(t, p, chars) ==
  IF At(t, p) # NUL /\ At(t, p) \in chars THEN 1 + strspn(t, p + 1, chars) ELSE 0

RECURSIVE strcspn(_, _, _)
strcspn(t, p, chars) ==
  IF At(t, p) # NUL /\ At(t, p) \notin chars THEN 1 + strcspn(t, p + 1, chars) ELSE 0

\* strchr(chars, c) also finds the terminating zero of chars
strchr(chars, c) == c = NUL \/ c \in chars

\* current(): the C string at the start of the buffer
current(t) == [i \in 1..strcspn(t, 0, {}) |-> t.buffer[i - 1]]

\* memmove(_buffer + dst, _buffer + src, n). A length that wrapped below zero
\* (a size_t near SIZE_MAX) or a block that leaves the buffer has no defined
\* outcome: crashed marks the run as broken off there, whatever the build does
\* with it, and the caller makes no further call.
memmove(t, dst, src, n) ==
  IF n < 0 \/ dst + n > MAX_TOKEN_LENGTH + 1 \/ src + n > MAX_TOKEN_LENGTH + 1
  THEN [t EXCEPT !.crashed = TRUE]
  ELSE [t EXCEPT !.buffer = [i \in 0..MAX_TOKEN_LENGTH |->
                               IF i >= dst /\ i < dst + n THEN t.buffer[src + (i - dst)]
                               ELSE t.buffer[i]]]

available(t) == Len(t.input)

\* _input.readString(_buffer + _bufferLength, max): the count it delivers
Smaller(a, b) == IF a < b THEN a ELSE b
delivered(t, max) ==
  IF t.chunk > 0 THEN Smaller(t.chunk, Smaller(Len(t.input), max))
  ELSE Smaller(Len(t.input), max)

\* the assignments of shiftBufferToStopPosition after its memmove
shifted(m, bufferSizeToShift, stopChar) ==
  IF m.crashed THEN m
  ELSE [m EXCEPT !.bufferLength = bufferSizeToShift - 1,
                 !.stopPosition = 0,
                 !.buffer[0] = stopChar,
                 !.stopChar = NUL]

shiftBufferToStopPosition(t) ==
  IF t.bufferLength > 0 /\ At(t, t.stopPosition) = NUL
  THEN shifted(memmove(t, 0, t.stopPosition, t.bufferLength - t.stopPosition + 1),
               t.bufferLength - t.stopPosition + 1, t.stopChar)
  ELSE t

\* the assignments of fillBuffer after readString delivered charsRead
filled(t, charsRead) ==
  [t EXCEPT !.input = SubSeq(t.input, charsRead + 1, Len(t.input)),
            !.inputCharsRead = @ + charsRead,
            !.bufferLength = @ + charsRead,
            !.buffer = [i \in 0..MAX_TOKEN_LENGTH |->
                          IF i >= t.bufferLength /\ i < t.bufferLength + charsRead
                          THEN t.input[i - t.bufferLength + 1]
                          ELSE IF i = t.bufferLength + charsRead THEN NUL
                          ELSE t.buffer[i]]]

fillBuffer(t) ==
  IF t.bufferLength < MAX_TOKEN_LENGTH /\ available(t) > 0
  THEN filled(t, delivered(t, MAX_TOKEN_LENGTH - t.bufferLength))
  ELSE t

RECURSIVE escapeRun(_, _, _)
escapeRun(t, i, escapeChar) ==
  IF i > 0 /\ At(t, i - 1) = escapeChar THEN 1 + escapeRun(t, i - 1, escapeChar) ELSE 0

isEscaped(t, escapeChar) ==
  IF t.stopPosition = 0 \/ t.stopChar = NUL THEN FALSE
  ELSE escapeRun(t, t.stopPosition, escapeChar) % 2 = 1

abort(t, reason) == [t EXCEPT !.aborted = TRUE, !.abortReason = reason]

completed(t) == ~t.aborted /\ available(t) = 0

positionInInput(t) == t.inputCharsRead - t.bufferLength

\* peek after its shift and fill
peeked(t, chars) == Return(t, IF strchr(chars, At(t, 0)) THEN At(t, 0) ELSE NUL)

peek(t, chars) ==
  IF t.aborted THEN Return(t, NUL)
  ELSE peeked(fillBuffer(shiftBufferToStopPosition(t)), chars)

tpop(t) ==
  IF t.aborted THEN t
  ELSE fillBuffer(shiftBufferToStopPosition(
         IF t.stopPosition = 0 /\ At(t, 0) # NUL
         THEN [t EXCEPT !.stopPosition = 1, !.stopChar = At(t, 1), !.buffer[1] = NUL]
         ELSE t))

\* the while loop of nextUntil (until = TRUE, strcspn) and of nextWhile
\* (until = FALSE, strspn): scanLoop is its condition and the first two
\* assignments of its body, scanStop the test of isEscaped
RECURSIVE scanLoop(_, _, _, _)
RECURSIVE scanStop(_, _, _, _)
stopAt(t, p) == [t EXCEPT !.stopPosition = p, !.stopChar = At(t, p)]

scanLoop(t, chars, escapeChar, until) ==
  IF At(t, t.stopPosition) = NUL THEN t
  ELSE scanStop(stopAt(t, t.stopPosition + (IF until THEN strcspn(t, t.stopPosition, chars)
                                            ELSE strspn(t, t.stopPosition, chars))),
                chars, escapeChar, until)

scanStop(t, chars, escapeChar, until) ==
  IF isEscaped(t, escapeChar)
  THEN scanLoop([t EXCEPT !.stopPosition = @ + 1], chars, escapeChar, until)
  ELSE t

\* _buffer[_stopPosition] = '\0'; return _stopChar;
cut(t) == [t EXCEPT !.buffer[t.stopPosition] = NUL, !.ret = t.stopChar]

nextUntil(t, stopChars, escapeChar) ==
  IF t.aborted THEN Return(t, NUL)
  ELSE cut(scanLoop(fillBuffer(shiftBufferToStopPosition(t)), stopChars, escapeChar, TRUE))

nextWhile(t, stopChars, escapeChar) ==
  IF t.aborted THEN Return(t, NUL)
  ELSE cut(scanLoop(fillBuffer(shiftBufferToStopPosition(t)), stopChars, escapeChar, FALSE))

\* the do-while loop of skip: skipLoop is the shift and fill of its body,
\* skipSpan the strspn, skipAgain its condition
RECURSIVE skipLoop(_, _)
RECURSIVE skipSpan(_, _)
RECURSIVE skipAgain(_, _)
skipLoop(t, chars) == skipSpan(fillBuffer(shiftBufferToStopPosition(t)), chars)

skipSpan(t, chars) ==
  IF t.crashed THEN t
  ELSE skipAgain([t EXCEPT !.stopPosition = strspn(t, 0, chars)], chars)

skipAgain(t, chars) ==
  IF At(t, t.stopPosition) = NUL /\ available(t) > 0 THEN skipLoop(t, chars) ELSE t

\* the if after the loop of skip
skipCut(t, chars) ==
  IF t.stopPosition > 0 /\ strchr(chars, At(t, t.stopPosition - 1))
  THEN shiftBufferToStopPosition([t EXCEPT !.stopChar = At(t, t.stopPosition),
                                           !.buffer[t.stopPosition] = NUL])
  ELSE t

\* a skip that does not ask whether the Tokenizer is aborted
tskip_unguarded(t, chars) == skipCut(skipLoop(t, chars), chars)

tskip(t, chars) == IF t.aborted THEN t ELSE skipCut(skipLoop(t, chars), chars)

BS == "BS"

\* a handler that does not know the escape of the solidus
jsonEscapeHandler_withoutSolidus(c) ==
  CASE c = "\"" -> <<<<"\"">>, 1>>
    [] c = "\\" -> <<<<"\\">>, 1>>
    [] c = "b" -> <<<<BS>>, 1>>
    [] c = "f" -> <<<<"\f">>, 1>>
    [] c = "n" -> <<<<"\n">>, 1>>
    [] c = "r" -> <<<<"\r">>, 1>>
    [] c = "t" -> <<<<"\t">>, 1>>
    [] OTHER -> <<<<"\\", c>>, 0>>

\* jsonEscapeHandler on the character c that follows the escape character:
\* <<characters written, characters elided>>
jsonEscapeHandler(c) ==
  CASE c = "\"" -> <<<<"\"">>, 1>>
    [] c = "\\" -> <<<<"\\">>, 1>>
    [] c = "/" -> <<<<"/">>, 1>>
    [] c = "b" -> <<<<BS>>, 1>>
    [] c = "f" -> <<<<"\f">>, 1>>
    [] c = "n" -> <<<<"\n">>, 1>>
    [] c = "r" -> <<<<"\r">>, 1>>
    [] c = "t" -> <<<<"\t">>, 1>>
    [] OTHER -> <<<<"\\", c>>, 0>>

\* buf with chars written from index d on
Put(buf, d, chars) ==
  [i \in DOMAIN buf |-> IF i >= d /\ i < d + Len(chars) THEN chars[i - d + 1] ELSE buf[i]]

\* the rewriting loop of handleEscapedChars: source index s, destination index
\* d, the span ends at sourceEnd; <<buffer, destination, skippedChars>>
RECURSIVE rewrite(_, _, _, _, _, _)
RECURSIVE rewriteEscape(_, _, _, _, _, _, _)
rewrite(buf, s, d, sourceEnd, escapeChar, skipped) ==
  IF s >= sourceEnd THEN <<buf, d, skipped>>
  ELSE IF buf[s] = escapeChar
       THEN rewriteEscape(buf, s, d, sourceEnd, escapeChar, skipped,
                          jsonEscapeHandler(buf[s + 1]))
       ELSE rewrite(Put(buf, d, <<buf[s]>>), s + 1, d + 1, sourceEnd, escapeChar, skipped)

rewriteEscape(buf, s, d, sourceEnd, escapeChar, skipped, h) ==
  rewrite(Put(buf, d, h[1]), s + 2, d + Len(h[1]), sourceEnd, escapeChar, skipped + h[2])

\* the end of handleEscapedChars after its memmove
moved(m, skippedChars) ==
  IF m.crashed THEN m
  ELSE [m EXCEPT !.stopPosition = @ - skippedChars, !.bufferLength = @ - skippedChars]

\* handleEscapedChars after its loop gave r
unescaped(t, r) ==
  moved(memmove([t EXCEPT !.buffer = Put(r[1], r[2], <<r[1][t.stopPosition]>>)],
                r[2] + 1, t.stopPosition + 1, t.bufferLength - t.stopPosition - 1),
        r[3])

handleEscapedChars(t, escapeChar) ==
  IF t.bufferLength > 0 /\ At(t, t.stopPosition) = NUL
  THEN unescaped(t, rewrite(t.buffer, 0, 0, t.stopPosition, escapeChar, 0))
  ELSE t

\* a Tokenizer with one storage that all indices share
storeToken_shared(t, index) ==
  [t EXCEPT !.tokenStorage = [i \in 0..(MAX_TOKENS - 1) |-> current(t)]]

storeToken(t, index) ==
  IF index < MAX_TOKENS THEN [t EXCEPT !.tokenStorage[index] = current(t)] ELSE t

storedToken(t, index) == IF index < MAX_TOKENS THEN t.tokenStorage[index] ELSE <<>>

(* ------------------------------- Reader ------------------------------- *)
DIGITS == {"0", "1", "2", "3", "4", "5", "6", "7", "8", "9"}
VALUE_START == {"n", "t", "f", "\"", "-", "[", "{"} \cup DIGITS
LITERAL_END == {" ", "\r", "\n", "\t", ",", "]", "}"}
NUMBER_CHARS == {"-", "."} \cup DIGITS

\* toolbox::Decimal::fromString accepts -?[0-9]+(\.[0-9]+)? ; the Decimal is
\* kept as its text
AllDigits(text) == Len(text) > 0 /\ \A i \in 1..Len(text) : text[i] \in DIGITS

Unsigned_(text) ==
  \/ AllDigits(text)
  \/ \E d \in 1..Len(text) : /\ text[d] = "."
                             /\ AllDigits(SubSeq(text, 1, d - 1))
                             /\ AllDigits(SubSeq(text, d + 1, Len(text)))

fromString(text) ==
  IF Len(text) > 0 /\ text[1] = "-" THEN Unsigned_(Tail(text)) ELSE Unsigned_(text)

isInteger(text) == \A i \in 1..Len(text) : text[i] # "."

\* A Value (also a List, an Object, a Property): tokenizer tells whether
\* _tokenizer is set
Value(tok) ==
  [tokenizer |-> tok, type |-> "Invalid", consumed |-> FALSE,
   boolean |-> FALSE, decimal |-> <<>>]

invalidate(v) == [v EXCEPT !.type = "Invalid"]
valid(v) == v.type # "Invalid"

\* The operations work on a pair p of an object v and the tokenizer t, and
\* return the pair after the call.
Pair(v, t) == [v |-> v, t |-> t]
On(p, t) == [p EXCEPT !.t = t]
Invalidated(p) == [p EXCEPT !.v = invalidate(p.v)]
NotConsumed(p) == [p EXCEPT !.v.consumed = FALSE]
Aborted(p, reason) == Pair(invalidate(p.v), abort(p.t, reason))
\* skip whitespace, then peek
peekNext(p, chars) == On(p, peek(tskip(p.t, WHITESPACE), chars))

RECURSIVE skip(_)
RECURSIVE parse(_)
RECURSIVE parseProperty(_)
RECURSIVE advanceList(_)
RECURSIVE advanceObject(_)
RECURSIVE skipList(_)
RECURSIVE skipObject(_)
RECURSIVE dropListIterator(_)
RECURSIVE dropObjectIterator(_)

\* Value::parse, a literal: after nextUntil
literalRead(p, word, type, boolean, reason) ==
  IF current(p.t) = word
  THEN Pair([p.v EXCEPT !.boolean = boolean, !.type = type], tpop(p.t))
  ELSE Aborted(p, reason)

literal(p, word, type, boolean, reason) ==
  literalRead(On(p, nextUntil(p.t, LITERAL_END, NUL)), word, type, boolean, reason)

\* Value::parse, a string: after nextUntil
stringRead(p) ==
  IF p.t.ret = "\""
  THEN Pair([p.v EXCEPT !.type = "String"],
            tpop(tpop(storeToken(handleEscapedChars(p.t, "\\"), 0))))
  ELSE Aborted(p, "String longer than maximum token length.")

\* Value::parse, a number: after nextWhile
numberRead(p) ==
  IF fromString(current(p.t))
  THEN Pair([p.v EXCEPT !.decimal = current(p.t),
                        !.type = IF isInteger(current(p.t)) THEN "Integer" ELSE "Decimal"],
            p.t)
  ELSE Aborted(p, "Invalid number format.")

\* Value::parse, the switch on the character peek returned
parseSwitch(p) ==
  CASE p.t.ret = "n" -> literal(p, <<"n", "u", "l", "l">>, "Null", p.v.boolean,
                                "Expected 'null' value.")
    [] p.t.ret = "t" -> literal(p, <<"t", "r", "u", "e">>, "Boolean", TRUE,
                                "Expected boolean 'true'.")
    [] p.t.ret = "f" -> literal(p, <<"f", "a", "l", "s", "e">>, "Boolean", FALSE,
                                "Expected boolean 'false'.")
    [] p.t.ret = "\"" -> stringRead(On(p, nextUntil(tpop(p.t), {"\""}, "\\")))
    [] p.t.ret \in {"-"} \cup DIGITS -> numberRead(On(p, nextWhile(p.t, NUMBER_CHARS, NUL)))
    [] p.t.ret = "[" -> Pair([p.v EXCEPT !.type = "List"], p.t)
    [] p.t.ret = "{" -> Pair([p.v EXCEPT !.type = "Object"], p.t)
    [] OTHER -> Aborted(p, "Unexpected character at start of value.")

\* Value::parse, after the switch
parseEnd(p) ==
  Pair([p.v EXCEPT !.consumed = FALSE],
       IF valid(p.v) THEN tskip(p.t, WHITESPACE) ELSE p.t)

\* Value::parse, after skip() and invalidate()
parseValue(p) ==
  IF ~p.v.tokenizer THEN p ELSE parseEnd(parseSwitch(peekNext(p, VALUE_START)))

parse(p) == parseValue(Invalidated(skip(p)))

\* List::Iterator: the iterator is its _current Value
advanceListSwitch(p) ==
  CASE p.t.ret = "," -> parse(On(p, tpop(p.t)))
    [] p.t.ret = "]" -> Pair(invalidate(p.v), tskip(tpop(p.t), WHITESPACE))
    [] OTHER -> Aborted(p, "Unexpected character in list.")

advanceList(p) ==
  IF valid(p.v) THEN advanceListSwitch(peekNext(skip(p), {",", "]"})) ELSE p

newListIteratorAt(p) ==
  IF p.t.ret = "]" THEN On(p, tskip(tpop(p.t), WHITESPACE)) ELSE parse(p)

newListIterator(t) == newListIteratorAt(peekNext(Pair(Value(TRUE), t), {"]"}))

\* ~Iterator, then ~Value of its _current
dropListIterator(p) ==
  IF valid(p.v) THEN dropListIterator(advanceList(p)) ELSE skip(p)

\* List::parse
parseListOpen(p) ==
  IF p.t.ret = "["
  THEN Pair([p.v EXCEPT !.type = "List", !.consumed = FALSE], tpop(p.t))
  ELSE NotConsumed(Aborted(p, "Expected '[' at begin of list."))

parseListAt(p) ==
  IF ~p.v.tokenizer THEN NotConsumed(p) ELSE parseListOpen(peekNext(p, {"["}))

parseList(p) == parseListAt(Invalidated(skip(p)))

\* begin() returns the container c, the iterator's _current v and the
\* tokenizer
begun(c, i) == [c |-> c, v |-> i.v, t |-> i.t]

beginList(p) ==
  IF p.v.consumed \/ ~valid(p.v) THEN begun(p.v, Pair(Value(FALSE), p.t))
  ELSE begun([p.v EXCEPT !.consumed = TRUE], newListIterator(p.t))

\* Property::parse
parsePropertyColon(p) ==
  IF p.t.ret = ":" THEN NotConsumed(parse(On(p, tpop(p.t))))
  ELSE NotConsumed(Aborted(p, "Expected ':' after property name."))

parsePropertyQuoted(p) ==
  IF p.t.ret = "\""
  THEN parsePropertyColon(
         On(p, peek(tskip(tpop(tpop(storeToken(handleEscapedChars(p.t, "\\"), 1))),
                          WHITESPACE), {":"})))
  ELSE NotConsumed(Aborted(p, "String longer than maximum token length."))

parsePropertyName(p) ==
  IF p.t.ret = "\"" THEN parsePropertyQuoted(On(p, nextUntil(tpop(p.t), {"\""}, "\\")))
  ELSE NotConsumed(Aborted(p, "Expected '\"' at start of property name."))

parsePropertyAt(p) ==
  IF ~p.v.tokenizer THEN NotConsumed(p) ELSE parsePropertyName(peekNext(p, {"\""}))

parseProperty(p) == parsePropertyAt(Invalidated(skip(p)))

propertyName(t) == storedToken(t, 1)

\* Object::Iterator: the iterator is its _current Property
advanceObjectSwitch(p) ==
  CASE p.t.ret = "," -> parseProperty(On(p, tpop(p.t)))
    [] p.t.ret = "}" -> Pair(invalidate(p.v), tskip(tpop(p.t), WHITESPACE))
    [] OTHER -> Aborted(p, "Unexpected character in object.")

advanceObject(p) ==
  IF valid(p.v) THEN advanceObjectSwitch(peekNext(skip(p), {",", "}"})) ELSE p

newObjectIteratorAt(p) ==
  IF p.t.ret = "}" THEN On(p, tskip(tpop(p.t), WHITESPACE)) ELSE parseProperty(p)

newObjectIterator(t) == newObjectIteratorAt(peekNext(Pair(Value(TRUE), t), {"}"}))

dropObjectIterator(p) ==
  IF valid(p.v) THEN dropObjectIterator(advanceObject(p)) ELSE skip(p)

\* Object::parse
parseObjectOpen(p) ==
  IF p.t.ret = "{"
  THEN Pair([p.v EXCEPT !.type = "Object", !.consumed = FALSE], tpop(p.t))
  ELSE NotConsumed(Aborted(p, "Expected '{' at begin of object."))

parseObjectAt(p) ==
  IF ~p.v.tokenizer THEN NotConsumed(p) ELSE parseObjectOpen(peekNext(p, {"{"}))

parseObject(p) == parseObjectAt(Invalidated(skip(p)))

beginObject(p) ==
  IF p.v.consumed \/ ~valid(p.v) THEN begun(p.v, Pair(Value(FALSE), p.t))
  ELSE begun([p.v EXCEPT !.consumed = TRUE], newObjectIterator(p.t))

\* asObject() and asList() return the Value v, the container c and the
\* tokenizer
taken(v, c) == [v |-> v, c |-> c.v, t |-> c.t]

asObject(p) ==
  IF p.v.consumed \/ p.v.type # "Object" THEN taken(p.v, Pair(Value(FALSE), p.t))
  ELSE taken([p.v EXCEPT !.consumed = TRUE], parseObject(Pair(Value(TRUE), p.t)))

\* an asList that parses a list whatever the Value is and was used for
asList_again(p) ==
  taken([p.v EXCEPT !.consumed = TRUE], parseList(Pair(Value(TRUE), p.t)))

asList(p) ==
  IF p.v.consumed \/ p.v.type # "List" THEN taken(p.v, Pair(Value(FALSE), p.t))
  ELSE taken([p.v EXCEPT !.consumed = TRUE], parseList(Pair(Value(TRUE), p.t)))

\* the range-for loops of Value::skip, from the iterator begin() returned to
\* the destruction of the iterator
skipList(p) ==
  IF valid(p.v) THEN skipList(advanceList(skip(p))) ELSE dropListIterator(p)

skipObject(p) ==
  IF valid(p.v) THEN skipObject(advanceObject(skip(p))) ELSE dropObjectIterator(p)

\* the loop over the range b that begin() returned, then ~List or ~Object
skipListRange(b) == skip(Pair(b.c, skipList(Pair(b.v, b.t)).t)).t
skipObjectRange(b) == skip(Pair(b.c, skipObject(Pair(b.v, b.t)).t)).t

\* Value::skip of a list and of an object, after asList() or asObject() gave a
skipListOf(a) ==
  Pair([a.v EXCEPT !.consumed = TRUE], skipListRange(beginList(Pair(a.c, a.t))))
skipObjectOf(a) ==
  Pair([a.v EXCEPT !.consumed = TRUE], skipObjectRange(beginObject(Pair(a.c, a.t))))

\* a skip that marks the value as consumed and reads nothing
skip_shallow(p) == [p EXCEPT !.v.consumed = TRUE]

\* a skip that does not ask whether the value is consumed already
skip_again(p) ==
  CASE p.v.type = "List" -> skipListOf(asList_again(p))
    [] OTHER -> skip_shallow(p)

skip(p) ==
  IF p.v.consumed THEN p
  ELSE CASE p.v.type = "List" -> skipListOf(asList(p))
         [] p.v.type = "Object" -> skipObjectOf(asObject(p))
         [] OTHER -> [p EXCEPT !.v.consumed = TRUE]

\* Reader
begin(t) == parse(Pair(Value(TRUE), t))

ended(t) ==
  IF ~completed(t) THEN abort(t, "Unexpected characters at end of document.") ELSE t

readerEnd(t) == ended(tskip(t, WHITESPACE))

diagnostics(t) ==
  [streamPosition |-> positionInInput(t),
   bufferContents |-> current(t),
   errorMessage |-> t.abortReason]

(* ----------------------- documents given to the Reader ---------------- *)
\* A document is described by the tree of its values. A node has its type,
\* the raw text of a scalar, the content a reader is to report for it, its
\* children and, for a member of an object, the raw and the decoded name.
Leaf(type, raw, text) ==
  [type |-> type, raw |-> raw, text |-> text, kids |-> <<>>,
   prop |-> FALSE, nraw |-> <<>>, ntext |-> <<>>]

Named(tree, n) == [tree EXCEPT !.prop = TRUE, !.nraw = n.raw, !.ntext = n.text]
ListOf(kids) == [Leaf("List", <<>>, <<>>) EXCEPT !.kids = kids]
ObjectOf(kids) == [Leaf("Object", <<>>, <<>>) EXCEPT !.kids = kids]

Xs(n) == [i \in 1..n |-> "x"]

\* string contents: raw text between the quotes, and the decoded content
StringContents ==
  {[raw |-> <<>>, text |-> <<>>],
   [raw |-> <<"a">>, text |-> <<"a">>],
   [raw |-> <<"\\", "\"">>, text |-> <<"\"">>],
   [raw |-> <<"b", "\\", "n">>, text |-> <<"b", "\n">>],
   [raw |-> <<"\\", "\\">>, text |-> <<"\\">>],
   [raw |-> <<"a", " ", ",", "]">>, text |-> <<"a", " ", ",", "]">>],
   [raw |-> Xs(MAX_TOKEN_LENGTH - 1), text |-> Xs(MAX_TOKEN_LENGTH - 1)],
   [raw |-> Xs(MAX_TOKEN_LENGTH), text |-> Xs(MAX_TOKEN_LENGTH)],
   [raw |-> Xs(MAX_TOKEN_LENGTH + 1), text |-> Xs(MAX_TOKEN_LENGTH + 1)]}

NameK == [raw |-> <<"k">>, text |-> <<"k">>]
NameJ == [raw |-> <<"j">>, text |-> <<"j">>]
LongNames == {[raw |-> Xs(n), text |-> Xs(n)] :
                n \in {MAX_TOKEN_LENGTH - 1, MAX_TOKEN_LENGTH + 1}}
PropertyNames == {NameK, [raw |-> <<"\\", "\"">>, text |-> <<"\"">>],
                  [raw |-> Xs(MAX_TOKEN_LENGTH), text |-> Xs(MAX_TOKEN_LENGTH)]}

NullLeaf == Leaf("Null", <<"n", "u", "l", "l">>, <<>>)
TrueLeaf == Leaf("Boolean", <<"t", "r", "u", "e">>, <<"t", "r", "u", "e">>)
FalseLeaf == Leaf("Boolean", <<"f", "a", "l", "s", "e">>, <<"f", "a", "l", "s", "e">>)
SevenLeaf == Leaf("Integer", <<"7">>, <<"7">>)
MinusTenLeaf == Leaf("Integer", <<"-", "1", "0">>, <<"-", "1", "0">>)
DecimalLeaf == Leaf("Decimal", <<"1", ".", "5">>, <<"1", ".", "5">>)
StringLeaf(c) == Leaf("String", c.raw, c.text)
ALeaf == StringLeaf([raw |-> <<"a">>, text |-> <<"a">>])

Leaves ==
  {NullLeaf, TrueLeaf, FalseLeaf, SevenLeaf, MinusTenLeaf, DecimalLeaf}
  \cup {StringLeaf(c) : c \in StringContents}

SmallLeaves == {NullLeaf, TrueLeaf, MinusTenLeaf, ALeaf}

Depth1 ==
  {ListOf(<<>>), ObjectOf(<<>>)}
  \cup {ListOf(<<x>>) : x \in Leaves}
  \cup {ListOf(<<x, y>>) : x \in SmallLeaves, y \in SmallLeaves}
  \cup {ObjectOf(<<Named(x, n)>>) : x \in Leaves, n \in PropertyNames}
  \cup {ObjectOf(<<Named(x, NameK), Named(y, NameJ)>>) : x \in SmallLeaves, y \in SmallLeaves}
  \cup {ObjectOf(<<Named(SevenLeaf, n)>>) : n \in LongNames}

Inner ==
  {ListOf(<<>>), ListOf(<<SevenLeaf>>), ListOf(<<SevenLeaf, ALeaf>>),
   ObjectOf(<<>>), ObjectOf(<<Named(NullLeaf, NameK)>>)}

Depth2 ==
  {ListOf(<<c>>) : c \in Inner}
  \cup {ListOf(<<c, SevenLeaf>>) : c \in Inner}
  \cup {ListOf(<<SevenLeaf, c>>) : c \in Inner}
  \cup {ListOf(<<c, d>>) : c \in Inner, d \in Inner}
  \cup {ObjectOf(<<Named(c, NameK)>>) : c \in Inner}
  \cup {ObjectOf(<<Named(c, NameK), Named(d, NameJ)>>) : c \in Inner, d \in Inner}

\* numbers of as many digits as the token length, one less and one more
Ones(n) == [i \in 1..n |-> "1"]
NumberLeaf(n) == Leaf("Integer", Ones(n), Ones(n))
LongNumbers ==
  {NumberLeaf(n) : n \in (MAX_TOKEN_LENGTH - 1)..(MAX_TOKEN_LENGTH + 1)}
  \cup {ListOf(<<NumberLeaf(n)>>) : n \in (MAX_TOKEN_LENGTH - 1)..(MAX_TOKEN_LENGTH + 1)}

Trees == Leaves \cup Depth1 \cup Depth2 \cup LongNumbers

Pad(spaced) == IF spaced THEN <<" ">> ELSE <<>>
Quoted(raw) == <<"\"">> \o raw \o <<"\"">>

\* the text of a tree, compact or with a space around every token
RECURSIVE Render(_, _)
RECURSIVE RenderKids(_, _, _)
Render(tree, spaced) ==
  LET head == IF tree.prop
              THEN Pad(spaced) \o Quoted(tree.nraw) \o Pad(spaced) \o <<":">>
              ELSE <<>>
      body == CASE tree.type = "String" -> Quoted(tree.raw)
                [] tree.type = "List" -> <<"[">> \o RenderKids(tree.kids, 1, spaced) \o <<"]">>
                [] tree.type = "Object" -> <<"{">> \o RenderKids(tree.kids, 1, spaced) \o <<"}">>
                [] OTHER -> tree.raw
  IN head \o Pad(spaced) \o body \o Pad(spaced)

RenderKids(kids, i, spaced) ==
  IF kids = <<>> THEN Pad(spaced)
  ELSE IF i > Len(kids) THEN <<>>
  ELSE (IF i > 1 THEN <<",">> ELSE <<>>)
       \o Render(kids[i], spaced) \o RenderKids(kids, i + 1, spaced)

\* what a caller that visits everything is to see, in document order
Event(type, prop, nm, text) == [type |-> type, prop |-> prop, name |-> nm, text |-> text]
EndEvent == Event("End", FALSE, <<>>, <<>>)

RECURSIVE Events(_)
RECURSIVE EventsOfKids(_, _)
Events(tree) ==
  <<Event(tree.type, tree.prop, tree.ntext, tree.text)>>
  \o (IF tree.type \in {"List", "Object"}
      THEN EventsOfKids(tree.kids, 1) \o <<EndEvent>>
      ELSE <<>>)

EventsOfKids(kids, i) ==
  IF i > Len(kids) THEN <<>> ELSE Events(kids[i]) \o EventsOfKids(kids, i + 1)

\* the longest token of the tree: a literal, a number, a string's raw content
\* or a property name's raw content
RECURSIVE LongestToken(_)
RECURSIVE LongestOfKids(_, _)
Larger(a, b) == IF a > b THEN a ELSE b
LongestToken(tree) ==
  Larger(Larger(Len(tree.raw), Len(tree.nraw)), LongestOfKids(tree.kids, 1))

LongestOfKids(kids, i) ==
  IF i > Len(kids) THEN 0 ELSE Larger(LongestToken(kids[i]), LongestOfKids(kids, i + 1))

Doc(text, wf, longest, events) ==
  [text |-> text, wf |-> wf, longest |-> longest, events |-> events]

WellFormedDocs ==
  {Doc(Render(tree, spaced), TRUE, LongestToken(tree), Events(tree)) :
     tree \in Trees, spaced \in BOOLEAN}

\* texts that are no document of the grammar, by the kind of their defect
EmptyInputs ==
  {<<>>,
   <<" ">>}

MissingClosers ==
  {<<"[">>,
   <<"{">>,
   <<"[", "1">>,
   <<"{", "\"", "k", "\"", ":", "1">>,
   <<"[", "[", "1", "]">>,
   <<"[", "1", ",", "2">>,
   <<"{", "\"", "k", "\"", ":", "[", "1", "]">>,
   <<"[", "{", "\"", "k", "\"", ":", "1", "}">>}

MissingColons ==
  {<<"{", "\"", "k", "\"", " ", "1", "}">>,
   <<"{", "\"", "k", "\"", "}">>,
   <<"{", "\"", "k", "\"", ",", "1", "}">>,
   <<"{", "\"", "k", "\"", "1", "}">>}

MissingCommas ==
  {<<"[", "1", " ", "2", "]">>,
   <<"{", "\"", "k", "\"", ":", "1", " ", "\"", "j", "\"", ":", "2", "}">>,
   <<"[", "[", "]", " ", "[", "]", "]">>,
   <<"[", "1", "\"", "a", "\"", "]">>,
   <<"[", "n", "u", "l", "l", " ", "t", "r", "u", "e", "]">>}

TrailingCommas ==
  {<<"[", "1", ",", "]">>,
   <<"{", "\"", "k", "\"", ":", "1", ",", "}">>,
   <<"[", ",", "]">>,
   <<"[", ",", "1", "]">>,
   <<"{", ",", "}">>,
   <<"[", "1", ",", ",", "2", "]">>}

UnterminatedStrings ==
  {<<"\"", "a">>,
   <<"\"">>,
   <<"[", "\"", "a", "]">>,
   <<"\"", "a", "\\", "\"">>,
   <<"{", "\"", "k", ":", "1", "}">>,
   <<"\"", "\\", "\"">>,
   <<"[", "\"", "a", "\\", "\"", "]">>}

MisspelledLiterals ==
  {<<"n", "u", "l">>,
   <<"n", "u", "l", "l", "l">>,
   <<"t", "r", "u">>,
   <<"t", "r", "u", "e", "e">>,
   <<"f", "a", "l", "s">>,
   <<"f", "a", "l", "s", "e", "e">>,
   <<"n">>,
   <<"N">>,
   <<"[", "n", "u", "l", "]">>,
   <<"[", "t", "r", "u", "e", "1", "]">>,
   <<"n", "i", "l">>}

BadNumbers ==
  {<<"-">>,
   <<"1", ".">>,
   <<"1", ".", "2", ".", "3">>,
   <<"-", "-", "1">>,
   <<"1", "-", "2">>,
   <<"[", "1", ".", "]">>}

StrayCharacters ==
  {<<"]">>,
   <<"}">>,
   <<":">>,
   <<",">>,
   <<"x">>,
   <<"{", "1", ":", "2", "}">>,
   <<"{", "\"", "k", "\"", ":", "}">>,
   <<"[", "1", "}">>,
   <<"{", "\"", "k", "\"", ":", "1", "]">>,
   <<"1", " ", "2">>,
   <<"[", "]", " ", "[", "]">>,
   <<"[", "]", "]">>,
   <<"{", "}", "}">>,
   <<"[", "]", ",">>,
   <<"[", "]", " ", "x">>,
   <<"1", " ", "x">>,
   <<"n", "u", "l", "l", ",">>}

\* a well-formed document followed by one more character, and a list or an
\* object without its last character
FollowedByMore == {Render(tree, FALSE) \o <<c>> : tree \in Trees, c \in {"x", "]", ","}}
\* a well-formed document followed by a word after a space, and by more
\* characters than the buffer holds
FollowedByText ==
  {Render(tree, FALSE) \o tail :
     tree \in {SevenLeaf, ALeaf, ListOf(<<>>), ListOf(<<SevenLeaf, ALeaf>>),
               ObjectOf(<<Named(NullLeaf, NameK)>>)},
     tail \in {<<" ", "e", "x", "t", "r", "a">>, <<" ">> \o Xs(MAX_TOKEN_LENGTH + 1)}}

CutShort ==
  {SubSeq(Render(tree, FALSE), 1, Len(Render(tree, FALSE)) - 1) : tree \in Depth1 \cup Depth2}

MalformedTexts ==
  EmptyInputs \cup MissingClosers \cup MissingColons \cup MissingCommas
  \cup TrailingCommas \cup UnterminatedStrings \cup MisspelledLiterals
  \cup BadNumbers \cup StrayCharacters \cup FollowedByMore \cup FollowedByText
  \cup CutShort

MalformedDocs == {Doc(text, FALSE, 0, <<>>) : text \in MalformedTexts}

Docs == WellFormedDocs \cup MalformedDocs

\* the documents given to a caller that is free in what it calls
FreeTrees ==
  {SevenLeaf, ListOf(<<>>), ListOf(<<SevenLeaf, ALeaf>>),
   ListOf(<<ListOf(<<SevenLeaf>>), SevenLeaf>>),
   ListOf(<<ListOf(<<ListOf(<<>>), ObjectOf(<<Named(ALeaf, NameK)>>)>>), ALeaf>>),
   ObjectOf(<<Named(ListOf(<<SevenLeaf>>), NameK), Named(NullLeaf, NameJ)>>),
   ObjectOf(<<Named(ObjectOf(<<Named(ListOf(<<SevenLeaf>>), NameK)>>), NameK),
              Named(SevenLeaf, NameJ)>>)}

QuoteLeaf == StringLeaf([raw |-> <<"\\", "\"">>, text |-> <<"\"">>])
FullLeaf == StringLeaf([raw |-> Xs(MAX_TOKEN_LENGTH), text |-> Xs(MAX_TOKEN_LENGTH)])

\* a nested list holding a string of the maximum token length, and one holding
\* a string with an escape and a space behind it
FullInside == ListOf(<<ListOf(<<FullLeaf>>), SevenLeaf>>)
QuoteInside == ListOf(<<ListOf(<<QuoteLeaf>>)>>)
QuoteInsideText == <<"[", "[">> \o Quoted(QuoteLeaf.raw) \o <<" ", "]", "]">>
SpacedInside == ListOf(<<ListOf(<<SevenLeaf, ALeaf>>), SevenLeaf>>)

FreeDocs ==
  {Doc(Render(tree, FALSE), TRUE, LongestToken(tree), Events(tree)) : tree \in FreeTrees}
  \cup {Doc(Render(FullInside, FALSE), TRUE, LongestToken(FullInside), Events(FullInside)),
        Doc(QuoteInsideText, TRUE, LongestToken(QuoteInside), Events(QuoteInside)),
        Doc(Render(SpacedInside, TRUE), TRUE, LongestToken(SpacedInside),
            Events(SpacedInside))}
  \cup {Doc(text, FALSE, 0, <<>>) : text \in MissingClosers}

NoDoc == Doc(<<>>, FALSE, 0, <<>>)

(* ------------------------------- Init --------------------------------- *)
WriterInit ==
  /\ failed = FALSE
  /\ stack = [i \in 0..(MAX_STACK - 1) |-> "None"]
  /\ stackIndex = 0
  /\ allowed = ValueOps
  /\ output = <<>>
  /\ room = -1
  /\ oob = FALSE

NoCall == [op |-> "none", arg |-> <<>>, failedBefore |-> FALSE]

\* no Reader at work
ReaderIdle ==
  /\ tokenizer = TokenizerInit(<<>>, 0)
  /\ frames = <<>>
  /\ seen = <<>>
  /\ mode = "none"
  /\ doc = NoDoc
  /\ rpc = "idle"
  /\ steps = 0

Init ==
  /\ WriterInit
  /\ last = NoCall
  /\ plan = <<>>
  /\ \/ budget = MaxCalls /\ nestLeft = 0
     \/ budget = MaxTail /\ nestLeft = MaxNest
  /\ ReaderIdle

(* ------------------------------ actions ------------------------------- *)
Becomes(w) ==
  /\ failed' = w.failed
  /\ stack' = w.stack
  /\ stackIndex' = w.stackIndex
  /\ allowed' = w.allowed
  /\ output' = w.output
  /\ room' = w.room
  /\ oob' = w.oob

\* one public call by the caller, within the caller's budget
Call(name, arg, results) ==
  /\ budget > 0
  /\ budget' = budget - 1
  /\ nestLeft' = 0
  /\ last' = [op |-> name, arg |-> arg, failedBefore |-> failed]
  /\ \E w \in results : Becomes(w)
  /\ UNCHANGED <<rvars, plan>>

null == Call("null", <<>>, evaluate(W, INSERT_VALUE, <<"n", "u", "l", "l">>))

boolean ==
  \E b \in Booleans :
    Call("boolean", <<b>>,
         IF b = Nothing THEN evaluate(W, INSERT_VALUE, <<"n", "u", "l", "l">>)
         ELSE IF b = "true" THEN evaluate(W, INSERT_VALUE, <<"t", "r", "u", "e">>)
         ELSE evaluate(W, INSERT_VALUE, <<"f", "a", "l", "s", "e">>))

number ==
  \/ \E n \in Numbers : Call("number", FormatInt(n), evaluate(W, INSERT_VALUE, FormatInt(n)))
  \/ Call("number", <<Nothing>>, evaluate(W, INSERT_VALUE, <<"n", "u", "l", "l">>))

string ==
  \/ \E s \in Strings : Call("string", s, evaluate(W, INSERT_STRING, s))
  \/ Call("string", <<Nothing>>, evaluate(W, INSERT_VALUE, <<"n", "u", "l", "l">>))

openList ==
  \/ Call("openList", <<>>, evaluate(W, OPEN_LIST, <<>>))
  \/ /\ nestLeft > 0
     /\ nestLeft' = nestLeft - 1
     /\ budget' = budget
     /\ last' = [op |-> "openList", arg |-> <<>>, failedBefore |-> failed]
     /\ \E w \in evaluate(W, OPEN_LIST, <<>>) : Becomes(w)
     /\ UNCHANGED <<rvars, plan>>

openObject == Call("openObject", <<>>, evaluate(W, OPEN_OBJECT, <<>>))

property == \E n \in Names : Call("property", n, evaluate(W, START_PROPERTY, n))

close == Call("close", <<>>, evaluate(W, CLOSE, <<>>))

End == Call("end", <<>>, end(W))

Next ==
  \/ null
  \/ boolean
  \/ number
  \/ string
  \/ openList
  \/ openObject
  \/ property
  \/ close
  \/ End

Spec == Init /\ [][Next]_vars

(* ------------------------- the Reader's caller ------------------------ *)
\* The caller holds a stack of objects: the root Value begin() returned, a
\* List or Object that asList() or asObject() returned, and an iterator that
\* begin() returned, each taken from the object below it. A caller in mode
\* "full" visits every value as printJson does; a caller in mode "free" calls
\* whatever it likes, MaxSteps times.
ReaderInit ==
  /\ WriterInit
  /\ last = NoCall
  /\ plan = <<>>
  /\ budget = 0
  /\ nestLeft = 0
  /\ \/ mode = "full" /\ doc \in Docs
     \/ mode = "free" /\ doc \in FreeDocs
  /\ tokenizer = TokenizerInit(doc.text, 0)
  /\ frames = <<>>
  /\ seen = <<>>
  /\ rpc = "start"
  /\ steps = 0

\* pos is the place, in the document's values in document order, of the value
\* the object stands for (the caller's knowledge, not the Reader's)
Frame(kind, v, pos) == [kind |-> kind, v |-> v, stage |-> "new", pos |-> pos]

\* the place after the value at pos: after the end of a list or an object
RECURSIVE Closing(_, _, _)
Closing(events, i, depth) ==
  IF i > Len(events) THEN i
  ELSE IF events[i].type = "End"
       THEN (IF depth = 1 THEN i ELSE Closing(events, i + 1, depth - 1))
       ELSE Closing(events, i + 1, IF events[i].type \in {"List", "Object"}
                                   THEN depth + 1 ELSE depth)

After(events, pos) ==
  IF pos \in 1..Len(events) /\ events[pos].type \in {"List", "Object"}
  THEN Closing(events, pos + 1, 1) + 1
  ELSE pos + 1
Held == frames[Len(frames)]
SetHeld(f) == [frames EXCEPT ![Len(frames)] = f]
HasValue(f) == f.kind \in {"value", "listIterator", "objectIterator"}
IsContainer(f) == f.kind \in {"list", "object"}
IsIterator(f) == f.kind \in {"listIterator", "objectIterator"}

\* a step the full caller takes only when ok, and the free caller any time
Step(ok) ==
  /\ ~tokenizer.crashed
  /\ \/ mode \in {"full", "trip", "spaced"} /\ ok /\ steps' = steps
     \/ mode = "free" /\ steps < MaxSteps /\ steps' = steps + 1
  /\ UNCHANGED <<wvars, cvars, mode, doc>>

Holding == rpc # "start" /\ frames # <<>>

\* what printJson prints of a value
Observe(f, t) ==
  Event(f.v.type, f.kind = "objectIterator",
        IF f.kind = "objectIterator" THEN propertyName(t) ELSE <<>>,
        CASE f.v.type = "String" -> storedToken(t, 0)
          [] f.v.type \in {"Integer", "Decimal"} -> f.v.decimal
          [] f.v.type = "Boolean" -> IF f.v.boolean THEN <<"t", "r", "u", "e">>
                                     ELSE <<"f", "a", "l", "s", "e">>
          [] OTHER -> <<>>)

\* the held object becomes p.v, the tokenizer p.t
Becoming(p, stage, pos) ==
  /\ tokenizer' = p.t
  /\ frames' = SetHeld([Held EXCEPT !.v = p.v, !.stage = stage, !.pos = pos])

\* the held object becomes held and an object of the given kind is put on it
Putting(held, stage, kind, v, t, pos) ==
  /\ tokenizer' = t
  /\ frames' = Append(SetHeld([Held EXCEPT !.v = held, !.stage = stage]),
                      Frame(kind, v, pos))

Began(p) == tokenizer' = p.t /\ frames' = <<Frame("value", p.v, 1)>>

ReaderBegin ==
  /\ rpc = "start"
  /\ Step(TRUE)
  /\ Began(begin(tokenizer))
  /\ rpc' = "open"
  /\ UNCHANGED seen

Visit ==
  /\ Holding /\ HasValue(Held) /\ Held.stage = "new"
  /\ Held.kind = "value" \/ valid(Held.v)
  /\ Step(TRUE)
  /\ seen' = Append(seen, Observe(Held, tokenizer))
  /\ frames' = SetHeld([Held EXCEPT !.stage = IF Held.v.type \in {"List", "Object"}
                                              THEN "seen" ELSE "done"])
  /\ UNCHANGED <<tokenizer, rpc>>

Took(a, kind) == Putting(a.v, "open", kind, a.c, a.t, Held.pos)

TakeList ==
  /\ Holding /\ HasValue(Held)
  /\ Step(Held.stage = "seen" /\ Held.v.type = "List")
  /\ Took(asList(Pair(Held.v, tokenizer)), "list")
  /\ UNCHANGED <<seen, rpc>>

TakeObject ==
  /\ Holding /\ HasValue(Held)
  /\ Step(Held.stage = "seen" /\ Held.v.type = "Object")
  /\ Took(asObject(Pair(Held.v, tokenizer)), "object")
  /\ UNCHANGED <<seen, rpc>>

Begun(b, kind) == Putting(b.c, "begun", kind, b.v, b.t, Held.pos + 1)

Begin ==
  /\ Holding /\ IsContainer(Held)
  /\ Step(Held.stage = "new")
  /\ \/ Held.kind = "list" /\ Begun(beginList(Pair(Held.v, tokenizer)), "listIterator")
     \/ Held.kind = "object" /\ Begun(beginObject(Pair(Held.v, tokenizer)), "objectIterator")
  /\ UNCHANGED <<seen, rpc>>

Increment ==
  /\ Holding /\ IsIterator(Held)
  /\ Step(Held.stage = "done" /\ valid(Held.v))
  /\ \/ Held.kind = "listIterator" /\ Becoming(advanceList(Pair(Held.v, tokenizer)), "new", After(doc.events, Held.pos))
     \/ Held.kind = "objectIterator" /\ Becoming(advanceObject(Pair(Held.v, tokenizer)), "new", After(doc.events, Held.pos))
  /\ UNCHANGED <<seen, rpc>>

SkipValue ==
  /\ Holding /\ HasValue(Held)
  /\ mode = "free"
  /\ Step(FALSE)
  /\ Becoming(skip(Pair(Held.v, tokenizer)), Held.stage, Held.pos)
  /\ UNCHANGED <<seen, rpc>>

\* the end of the range-for loop: the iterator is destroyed
LeaveIterator ==
  /\ Holding /\ IsIterator(Held)
  /\ Step(~valid(Held.v))
  /\ \/ Held.kind = "listIterator"
        /\ tokenizer' = dropListIterator(Pair(Held.v, tokenizer)).t
     \/ Held.kind = "objectIterator"
        /\ tokenizer' = dropObjectIterator(Pair(Held.v, tokenizer)).t
  /\ frames' = SubSeq(frames, 1, Len(frames) - 1)
  /\ seen' = Append(seen, EndEvent)
  /\ UNCHANGED rpc

\* the List or Object is destroyed
LeaveContainer ==
  /\ Holding /\ IsContainer(Held)
  /\ Step(Held.stage = "begun")
  /\ tokenizer' = skip(Pair(Held.v, tokenizer)).t
  /\ frames' = SubSeq([frames EXCEPT ![Len(frames) - 1].stage = "done"],
                      1, Len(frames) - 1)
  /\ UNCHANGED <<seen, rpc>>

\* the root Value is destroyed
LeaveRoot ==
  /\ Holding /\ Held.kind = "value"
  /\ Step(Held.stage = "done")
  /\ tokenizer' = skip(Pair(Held.v, tokenizer)).t
  /\ frames' = <<>>
  /\ UNCHANGED <<seen, rpc>>

ReaderEnd ==
  /\ rpc = "open"
  /\ frames = <<>> \/ (Len(frames) = 1 /\ (mode = "free" \/ Held.stage = "done"))
  /\ Step(TRUE)
  /\ tokenizer' = readerEnd(tokenizer)
  /\ rpc' = "ended"
  /\ UNCHANGED <<seen, frames>>

ReaderNext ==
  \/ ReaderBegin
  \/ Visit
  \/ TakeList
  \/ TakeObject
  \/ Begin
  \/ Increment
  \/ SkipValue
  \/ LeaveIterator
  \/ LeaveContainer
  \/ LeaveRoot
  \/ ReaderEnd

ReaderSpec == ReaderInit /\ [][ReaderNext]_vars


(* ------------- written by the Writer, then read by the Reader ---------- *)
\* The caller builds a value with the Writer, call by call as planned, ends
\* the Writer, and hands the text the Output received to a Reader as its Input.
BackslashLeaf == StringLeaf([raw |-> <<"\\", "\\">>, text |-> <<"\\">>])
EndsInQuoteLeaf ==
  StringLeaf([raw |-> Xs(MAX_TOKEN_LENGTH - 2) \o <<"\\", "\"">>,
              text |-> Xs(MAX_TOKEN_LENGTH - 2) \o <<"\"">>])
QuoteMidLeaf == StringLeaf([raw |-> <<"a", "\\", "\"", "b">>, text |-> <<"a", "\"", "b">>])
QuoteName == [raw |-> <<"\\", "\"">>, text |-> <<"\"">>]

TripLeaves ==
  {NullLeaf, TrueLeaf, FalseLeaf, SevenLeaf, MinusTenLeaf, StringLeaf([raw |-> <<>>, text |-> <<>>]),
   ALeaf, QuoteLeaf, BackslashLeaf, QuoteMidLeaf, EndsInQuoteLeaf, FullLeaf}

TripTrees ==
  TripLeaves
  \cup {ListOf(<<>>), ObjectOf(<<>>)}
  \cup {ListOf(<<x>>) : x \in TripLeaves}
  \cup {ListOf(<<x, SevenLeaf>>) : x \in TripLeaves}
  \cup {ObjectOf(<<Named(x, n)>>) : x \in TripLeaves, n \in {NameK, QuoteName}}
  \cup {ListOf(<<ListOf(<<QuoteLeaf>>), ALeaf>>),
        ListOf(<<ObjectOf(<<Named(BackslashLeaf, NameK)>>)>>),
        ObjectOf(<<Named(ListOf(<<SevenLeaf, QuoteMidLeaf>>), NameK), Named(NullLeaf, NameJ)>>)}

\* the int a number's text stands for
RECURSIVE Natural(_)
Natural(text) ==
  IF text = <<>> THEN 0
  ELSE 10 * Natural(SubSeq(text, 1, Len(text) - 1))
       + (CHOOSE d \in 0..9 : Digit(d) = text[Len(text)])

IntOf(text) == IF Head(text) = "-" THEN 0 - Natural(Tail(text)) ELSE Natural(text)

Planned(op, arg) == [op |-> op, arg |-> arg]

\* the calls that build the tree, in order
RECURSIVE CallsOf(_)
RECURSIVE CallsOfKids(_, _)
CallsOf(tree) ==
  (IF tree.prop THEN <<Planned("property", tree.ntext)>> ELSE <<>>)
  \o CASE tree.type = "Null" -> <<Planned("null", <<>>)>>
        [] tree.type = "Boolean" -> <<Planned("boolean", tree.text = <<"t", "r", "u", "e">>)>>
        [] tree.type = "Integer" -> <<Planned("number", IntOf(tree.text))>>
        [] tree.type = "String" -> <<Planned("string", tree.text)>>
        [] tree.type = "List" ->
             <<Planned("openList", <<>>)>> \o CallsOfKids(tree.kids, 1)
             \o <<Planned("close", <<>>)>>
        [] tree.type = "Object" ->
             <<Planned("openObject", <<>>)>> \o CallsOfKids(tree.kids, 1)
             \o <<Planned("close", <<>>)>>

CallsOfKids(kids, i) ==
  IF i > Len(kids) THEN <<>> ELSE CallsOf(kids[i]) \o CallsOfKids(kids, i + 1)

\* the close() calls at the end of the plan, which end() can be left to make
RECURSIVE TrailingCloses(_)
TrailingCloses(calls) ==
  IF calls # <<>> /\ calls[Len(calls)].op = "close"
  THEN 1 + TrailingCloses(SubSeq(calls, 1, Len(calls) - 1)) ELSE 0

\* one call of the Writer's interface
perform(w, call) ==
  CASE call.op = "null" -> evaluate(w, INSERT_VALUE, <<"n", "u", "l", "l">>)
    [] call.op = "boolean" ->
         IF call.arg THEN evaluate(w, INSERT_VALUE, <<"t", "r", "u", "e">>)
         ELSE evaluate(w, INSERT_VALUE, <<"f", "a", "l", "s", "e">>)
    [] call.op = "number" -> evaluate(w, INSERT_VALUE, FormatInt(call.arg))
    [] call.op = "string" -> evaluate(w, INSERT_STRING, call.arg)
    [] call.op = "openList" -> evaluate(w, OPEN_LIST, <<>>)
    [] call.op = "openObject" -> evaluate(w, OPEN_OBJECT, <<>>)
    [] call.op = "property" -> evaluate(w, START_PROPERTY, call.arg)
    [] call.op = "close" -> evaluate(w, CLOSE, <<>>)

RoundTripInit ==
  /\ WriterInit
  /\ last = NoCall
  /\ budget = 0
  /\ nestLeft = 0
  /\ \E tree \in TripTrees :
       /\ doc = Doc(<<>>, TRUE, LongestToken(tree), Events(tree))
       /\ \E left \in 0..TrailingCloses(CallsOf(tree)) :
            plan = SubSeq(CallsOf(tree), 1, Len(CallsOf(tree)) - left)
  /\ mode = "trip"
  /\ tokenizer = TokenizerInit(<<>>, 0)
  /\ frames = <<>>
  /\ seen = <<>>
  /\ rpc = "writing"
  /\ steps = 0

\* the next call of the plan
Emit ==
  /\ rpc = "writing" /\ plan # <<>>
  /\ \E w \in perform(W, Head(plan)) : Becomes(w)
  /\ last' = [op |-> Head(plan).op, arg |-> Head(plan).arg, failedBefore |-> failed]
  /\ plan' = Tail(plan)
  /\ UNCHANGED <<budget, nestLeft, rvars>>

\* Writer::end()
Finish ==
  /\ rpc = "writing" /\ plan = <<>>
  /\ \E w \in end(W) : Becomes(w)
  /\ last' = [op |-> "end", arg |-> <<>>, failedBefore |-> failed]
  /\ rpc' = "written"
  /\ UNCHANGED <<budget, nestLeft, plan, tokenizer, frames, seen, mode, doc, steps>>

\* the text written becomes the Input of a Reader
Feed ==
  /\ rpc = "written" /\ ~failed
  /\ tokenizer' = TokenizerInit(output, 0)
  /\ doc' = [doc EXCEPT !.text = output]
  /\ rpc' = "start"
  /\ UNCHANGED <<wvars, cvars, frames, seen, mode, steps>>

RoundTripNext ==
  \/ Emit
  \/ Finish
  \/ Feed
  \/ ReaderBegin
  \/ Visit
  \/ TakeList
  \/ TakeObject
  \/ Begin
  \/ Increment
  \/ LeaveIterator
  \/ LeaveContainer
  \/ LeaveRoot
  \/ ReaderEnd

RoundTripSpec == RoundTripInit /\ [][RoundTripNext]_vars

(* ------------- the same document with whitespace put into it ----------- *)
\* the text of a tree with the whitespace pad around every token
RECURSIVE RenderPadded(_, _)
RECURSIVE RenderPaddedKids(_, _, _)
RenderPadded(tree, pad) ==
  (IF tree.prop THEN pad \o Quoted(tree.nraw) \o pad \o <<":">> ELSE <<>>)
  \o pad
  \o CASE tree.type = "String" -> Quoted(tree.raw)
        [] tree.type = "List" ->
             <<"[">> \o RenderPaddedKids(tree.kids, 1, pad) \o <<"]">>
        [] tree.type = "Object" ->
             <<"{">> \o RenderPaddedKids(tree.kids, 1, pad) \o <<"}">>
        [] OTHER -> tree.raw
  \o pad

RenderPaddedKids(kids, i, pad) ==
  IF kids = <<>> THEN pad
  ELSE IF i > Len(kids) THEN <<>>
  ELSE (IF i > 1 THEN <<",">> ELSE <<>>)
       \o RenderPadded(kids[i], pad) \o RenderPaddedKids(kids, i + 1, pad)

Spaces(n) == [i \in 1..n |-> " "]
Pads == {<<" ">>, <<"\t">>, <<"\r", "\n">>, Spaces(MAX_TOKEN_LENGTH + 1)}

\* the ways whitespace is put into the document of a tree: around every
\* token, only before the document, only behind it
PaddedTexts(tree) ==
  {RenderPadded(tree, pad) : pad \in Pads}
  \cup {pad \o Render(tree, FALSE) : pad \in Pads}
  \cup {Render(tree, FALSE) \o pad : pad \in Pads}

\* The caller reads the compact document to its end, notes what it saw and
\* whether the Reader failed, and then reads the padded document.
SpacingInit ==
  /\ WriterInit
  /\ last = NoCall
  /\ budget = 0
  /\ nestLeft = 0
  /\ \E tree \in Trees :
       /\ doc = Doc(Render(tree, FALSE), TRUE, LongestToken(tree), Events(tree))
       /\ plan \in PaddedTexts(tree)
  /\ mode = "spaced"
  /\ tokenizer = TokenizerInit(doc.text, 0)
  /\ frames = <<>>
  /\ seen = <<>>
  /\ rpc = "start"
  /\ steps = 0

\* a Reader over the padded document, after the compact one was read
Again ==
  /\ mode = "spaced" /\ rpc = "ended" /\ last = NoCall
  /\ last' = [op |-> "read", arg |-> seen, failedBefore |-> tokenizer.aborted]
  /\ tokenizer' = TokenizerInit(plan, 0)
  /\ doc' = [doc EXCEPT !.text = plan]
  /\ plan' = <<>>
  /\ frames' = <<>>
  /\ seen' = <<>>
  /\ rpc' = "start"
  /\ UNCHANGED <<wvars, budget, nestLeft, mode, steps>>

SpacingNext ==
  \/ ReaderBegin
  \/ Visit
  \/ TakeList
  \/ TakeObject
  \/ Begin
  \/ Increment
  \/ LeaveIterator
  \/ LeaveContainer
  \/ LeaveRoot
  \/ ReaderEnd
  \/ Again

SpacingSpec == SpacingInit /\ [][SpacingNext]_vars

(* ---------------- the JSON grammar, read off the emitted text --------- *)
\* A character-by-character recogniser of the JSON grammar. ctx is the stack of
\* containers the text has opened and not closed ("L" list, "O" object), mode
\* is what the grammar expects next, ok turns FALSE at the first character the
\* grammar does not allow and sep at the first misplaced or missing ','.
ScanInit == [ctx |-> <<>>, mode |-> "start", rest |-> <<>>, ok |-> TRUE, sep |-> TRUE]

Bad(s) == [s EXCEPT !.ok = FALSE]
BadSep(s) == [s EXCEPT !.ok = FALSE, !.sep = FALSE]
Top(s) == s.ctx[Len(s.ctx)]
Digits == {"0", "1", "2", "3", "4", "5", "6", "7", "8", "9"}

ValueStart(s, c) ==
  CASE c = "n" -> [s EXCEPT !.mode = "lit", !.rest = <<"u", "l", "l">>]
    [] c = "t" -> [s EXCEPT !.mode = "lit", !.rest = <<"r", "u", "e">>]
    [] c = "f" -> [s EXCEPT !.mode = "lit", !.rest = <<"a", "l", "s", "e">>]
    [] c = "-" -> [s EXCEPT !.mode = "minus"]
    [] c \in Digits -> [s EXCEPT !.mode = "num"]
    [] c = "\"" -> [s EXCEPT !.mode = "str"]
    [] c = "[" -> [s EXCEPT !.mode = "first", !.ctx = Append(@, "L")]
    [] c = "{" -> [s EXCEPT !.mode = "key1", !.ctx = Append(@, "O")]
    [] c = "," -> BadSep(s)
    [] OTHER -> Bad(s)

AfterValue(s, c) ==
  IF s.ctx = <<>> THEN (IF c = "," THEN BadSep(s) ELSE Bad(s))
  ELSE CASE c = "," -> [s EXCEPT !.mode = IF Top(s) = "L" THEN "elem" ELSE "key"]
         [] c = "]" /\ Top(s) = "L" -> [s EXCEPT !.mode = "after", !.ctx = SubSeq(@, 1, Len(@) - 1)]
         [] c = "}" /\ Top(s) = "O" -> [s EXCEPT !.mode = "after", !.ctx = SubSeq(@, 1, Len(@) - 1)]
         [] c \in {"]", "}"} -> Bad(s)
         [] OTHER -> BadSep(s)

ScanStep(s, c) ==
  IF ~s.ok THEN s
  ELSE CASE s.mode \in {"start", "pval"} -> ValueStart(s, c)
         [] s.mode = "elem" -> IF c \in {"]", "}"} THEN BadSep(s) ELSE ValueStart(s, c)
         [] s.mode = "first" ->
              IF c = "]" THEN [s EXCEPT !.mode = "after", !.ctx = SubSeq(@, 1, Len(@) - 1)]
              ELSE ValueStart(s, c)
         [] s.mode = "key1" ->
              CASE c = "}" -> [s EXCEPT !.mode = "after", !.ctx = SubSeq(@, 1, Len(@) - 1)]
                [] c = "\"" -> [s EXCEPT !.mode = "name"]
                [] c = "," -> BadSep(s)
                [] OTHER -> Bad(s)
         [] s.mode = "key" ->
              CASE c = "\"" -> [s EXCEPT !.mode = "name"]
                [] c \in {",", "}", "]"} -> BadSep(s)
                [] OTHER -> Bad(s)
         [] s.mode = "colon" ->
              CASE c = ":" -> [s EXCEPT !.mode = "pval"]
                [] c = "," -> BadSep(s)
                [] OTHER -> Bad(s)
         [] s.mode = "lit" ->
              IF c = Head(s.rest)
              THEN [s EXCEPT !.rest = Tail(@), !.mode = IF Len(s.rest) = 1 THEN "after" ELSE "lit"]
              ELSE Bad(s)
         [] s.mode = "minus" -> IF c \in Digits THEN [s EXCEPT !.mode = "num"] ELSE Bad(s)
         [] s.mode = "num" -> IF c \in Digits THEN s ELSE AfterValue(s, c)
         [] s.mode = "after" -> AfterValue(s, c)
         [] s.mode = "str" ->
              CASE c = "\"" -> [s EXCEPT !.mode = "after"]
                [] c = "\\" -> [s EXCEPT !.mode = "strEsc"]
                [] OTHER -> s
         [] s.mode = "strEsc" -> [s EXCEPT !.mode = "str"]
         [] s.mode = "name" ->
              CASE c = "\"" -> [s EXCEPT !.mode = "colon"]
                [] c = "\\" -> [s EXCEPT !.mode = "nameEsc"]
                [] OTHER -> s
         [] s.mode = "nameEsc" -> [s EXCEPT !.mode = "name"]
         [] OTHER -> Bad(s)

RECURSIVE ScanFrom(_, _, _)
ScanFrom(s, text, i) == IF i > Len(text) THEN s ELSE ScanFrom(ScanStep(s, text[i]), text, i + 1)

Scan(text) == ScanFrom(ScanInit, text, 1)

\* the text is one complete JSON value
WellFormed(text) ==
  LET s == Scan(text) IN s.ok /\ s.ctx = <<>> /\ s.mode \in {"after", "num"}

\* what the emitted text says about where the document stands
ValueDone(s) == s.mode \in {"after", "num"}
PropertyPending(s) == s.ok /\ s.mode = "pval"
InnermostIsList(s) == s.ok /\ s.ctx # <<>> /\ Top(s) = "L" /\ (s.mode = "first" \/ ValueDone(s))
InnermostIsObject(s) == s.ok /\ s.ctx # <<>> /\ Top(s) = "O" /\ (s.mode = "key1" \/ ValueDone(s))
NothingWritten(s) == s.ok /\ s.mode = "start"

RECURSIVE Closers(_)
Closers(ctx) ==
  IF ctx = <<>> THEN <<>>
  ELSE <<IF ctx[Len(ctx)] = "L" THEN LIST_END ELSE OBJECT_END>> \o Closers(SubSeq(ctx, 1, Len(ctx) - 1))

IsValueCall(c) == c.op \in {"null", "boolean", "number", "string", "openList", "openObject"}

(* ------------------------------ claims -------------------------------- *)
ValueLegal(s) == NothingWritten(s) \/ InnermostIsList(s) \/ PropertyPending(s)

LegalIn(ctx) ==
  IF ctx = <<>> THEN NOTHING
  ELSE IF ctx[Len(ctx)] = "L" THEN ValueOps \cup {CLOSE} ELSE {START_PROPERTY, CLOSE}

\* C1: after end(), a Writer that has not failed and has written something has
\* written exactly one well-formed JSON value (balanced, correctly nested,
\* every property name followed by one value).
C1_WellFormedAfterEnd ==
  (last.op = "end" /\ ~failed /\ output # <<>>) => WellFormed(output)

\* C2: a value-producing call on a Writer that has not failed is accepted
\* exactly when nothing has been written yet, or the innermost open container
\* is a list, or a property name has just been written.
C2_ValueAcceptedExactlyWhenLegal ==
  [][(IsValueCall(last') /\ ~failed) => (~failed' <=> ValueLegal(Scan(output)))]_vars

\* C3: property(name) is accepted only when the innermost open container is an
\* object and no property name is awaiting its value.
C3_PropertyOnlyInObject ==
  [][(last'.op = "property" /\ ~failed') => InnermostIsObject(Scan(output))]_vars

\* C4: close() is accepted only when a container is open and no property name
\* is pending; it then emits the closing character of the innermost open
\* container and the legal calls become those of the enclosing container.
C4_CloseMatchesInnermost ==
  [][(last'.op = "close" /\ ~failed') =>
       LET s == Scan(output)
       IN /\ s.ok /\ s.ctx # <<>> /\ ~PropertyPending(s)
          /\ output' = output \o <<Head(Closers(s.ctx))>>
          /\ allowed' = LegalIn(SubSeq(s.ctx, 1, Len(s.ctx) - 1))]_vars

\* C5: the failure flag is a one-way latch: a call made on a failed Writer
\* (end() included) leaves it failed and writes no character.
C5_FailedIsLatch == [][failed => (failed' /\ output' = output)]_vars

\* a call was made on a Writer that had already failed after writing something
C5_Witness == failed /\ last.failedBefore /\ output # <<>> /\ last.op \in {"end", "null", "close"}

\* C6: while the Writer has not failed, the emitted text has exactly one ','
\* between consecutive siblings and none anywhere else (before the first
\* sibling, after the last one, between a name and its value, outside a
\* container).
C6_SeparatorsExact ==
  ~failed => LET s == Scan(output) IN s.sep /\ s.mode \notin {"elem", "key"}

\* C7: end() on a Writer that has not failed and has no property name pending
\* emits the closing character of every open container, innermost first, and
\* leaves the Writer not failed; with a property name pending it fails.
C7_EndClosesEverything ==
  [][(last'.op = "end" /\ ~failed) =>
       LET s == Scan(output)
       IN IF PropertyPending(s) THEN failed'
          ELSE ~failed' /\ output' = output \o Closers(s.ctx)]_vars

\* C8: with a stack depth of MAX_STACK, MAX_STACK nested openList() calls
\* succeed and the next nested open, the one that exceeds capacity, fails.
C8_OpenBeyondCapacityFails ==
  nestLeft > 0 => (failed <=> (MaxNest - nestLeft) > MAX_STACK)

(* ------------------------------ Reader claims ------------------------- *)
IsPrefix(a, b) == Len(a) <= Len(b) /\ SubSeq(b, 1, Len(a)) = a

\* Reader::failed()
readerFailed == tokenizer.aborted

\* C9: for a well-formed document whose tokens are no longer than the maximum
\* token length, a caller that calls begin(), visits every value, iterates
\* every list and object to its end and calls end() sees the values in
\* document order with their types, property names and contents: the run never
\* breaks off, failed() is never true, what was seen so far is the start of
\* the document's values, and after end() it is all of them.
C9_WellFormedDocumentParses ==
  (mode = "full" /\ doc.wf /\ doc.longest <= MAX_TOKEN_LENGTH) =>
    /\ ~tokenizer.crashed
    /\ ~readerFailed
    /\ IsPrefix(seen, doc.events)
    /\ (rpc = "ended" => seen = doc.events)

\* C10: for an input that is no well-formed document, a caller that calls
\* begin(), visits every value, iterates every list and object to its end and
\* calls end() finds failed() true: the run does not break off, and after
\* end() failed() is true.
C10_MalformedInputFails ==
  (mode = "full" /\ ~doc.wf) =>
    /\ ~tokenizer.crashed
    /\ (rpc = "ended" => readerFailed)

\* a well-formed document with something other than whitespace after it
TrailingTexts == FollowedByMore \cup FollowedByText

\* C11: when the caller has visited the whole root value and the Reader has
\* not failed, end() makes failed() true exactly when something other than
\* whitespace follows the root value in the input, whether it is in the
\* buffer already or not; after a well-formed document, with or without
\* whitespace behind it, end() leaves failed() false.
C11_EndDetectsTrailingContent ==
  [][(ReaderEnd /\ mode = "full" /\ ~readerFailed
        /\ (doc.wf \/ doc.text \in TrailingTexts))
       => (readerFailed' <=> doc.text \in TrailingTexts)]_vars
(* ------------- stepping over values the caller did not look into -------- *)
HeldNext == frames'[Len(frames')]

\* the iterator holds the value at its place in the document
AtItsPlace(f, t) ==
  /\ f.pos \in 1..Len(doc.events)
  /\ IF doc.events[f.pos].type = "End" THEN ~valid(f.v)
     ELSE valid(f.v) /\ Observe(f, t) = doc.events[f.pos]

\* the iterator holds a list or an object nobody has taken or skipped
HoldsUninspected ==
  /\ Holding /\ IsIterator(Held) /\ mode = "free" /\ doc.wf
  /\ valid(Held.v) /\ Held.v.type \in {"List", "Object"} /\ ~Held.v.consumed
  /\ AtItsPlace(Held, tokenizer)
  /\ ~readerFailed

\* C12: when an iterator is advanced while it holds a list or an object of a
\* well-formed document that the caller has not looked into (an element of a
\* list or the value of a property), the whole nested container is read over,
\* however deep it is: the Reader does not fail, and the iterator then holds
\* the sibling that follows the container in the document, or is at its end
\* when there is none.
C12_AdvanceSkipsUninspectedContainer ==
  [][(Increment /\ HoldsUninspected)
       => (/\ ~readerFailed' /\ ~tokenizer'.crashed
           /\ HeldNext.pos = After(doc.events, Held.pos)
           /\ AtItsPlace(HeldNext, tokenizer'))]_vars
(* ---------------- leaving a loop before the container's end ------------- *)
\* the number of characters of the input the Tokenizer has gone past
Cursor(t) == t.inputCharsRead - t.bufferLength + t.stopPosition

\* the place in the text of the k-th ']' or '}' that is not inside a string
RECURSIVE NthCloser(_, _, _, _, _)
NthCloser(text, i, k, inString, escaped) ==
  IF i > Len(text) THEN i
  ELSE IF inString
       THEN NthCloser(text, i + 1, k, escaped \/ text[i] # "\"",
                      ~escaped /\ text[i] = "\\")
       ELSE IF text[i] \in {"]", "}"}
            THEN (IF k = 1 THEN i ELSE NthCloser(text, i + 1, k - 1, FALSE, FALSE))
            ELSE NthCloser(text, i + 1, k, text[i] = "\"", FALSE)

RECURSIVE SpaceRun(_, _)
SpaceRun(text, i) ==
  IF i \in 1..Len(text) /\ text[i] \in WHITESPACE THEN 1 + SpaceRun(text, i + 1) ELSE 0

EndsUpTo(events, e) == Cardinality({i \in 1..e : events[i].type = "End"})

\* where the text goes on behind the container the value at pos is in, and
\* behind the whitespace that follows the container
BehindContainer(d, pos) ==
  LET c == NthCloser(d.text, 1, EndsUpTo(d.events, Closing(d.events, pos, 1)), FALSE, FALSE)
  IN c + SpaceRun(d.text, c + 1)

\* C13: when an iterator over a list or an object of a well-formed document is
\* destroyed while it still holds an element (the caller leaves the loop
\* early), the destructor reads over the remaining elements and the closing
\* bracket: the Reader does not fail and the Tokenizer stands right behind the
\* container, where the next sibling or the end of the document follows.
C13_LeavingTheLoopEarlyDrains ==
  [][(/\ LeaveIterator /\ mode = "free" /\ doc.wf
      /\ valid(Held.v) /\ AtItsPlace(Held, tokenizer) /\ ~readerFailed)
       => (/\ ~readerFailed' /\ ~tokenizer'.crashed
           /\ Cursor(tokenizer') = BehindContainer(doc, Held.pos))]_vars
(* --------------------- asList() and asObject(), once -------------------- *)
\* the container the call has just returned is of the Value's type
TakesItsType ==
  \/ HeldNext.kind = "list" /\ Held.v.type = "List"
  \/ HeldNext.kind = "object" /\ Held.v.type = "Object"

\* begin() on the container returns an iterator at its end at once and leaves
\* the Tokenizer alone
YieldsNothing(f, t) ==
  /\ f.kind = "list" =>
        ~valid(beginList(Pair(f.v, t)).v) /\ beginList(Pair(f.v, t)).t = t
  /\ f.kind = "object" =>
        ~valid(beginObject(Pair(f.v, t)).v) /\ beginObject(Pair(f.v, t)).t = t

\* C14: the first asList() on a List value (asObject() on an Object value)
\* returns a valid container and marks the value consumed; a further call on
\* the same value, and a call on a value of another type, returns an invalid
\* container that yields no element, reads nothing from the Tokenizer and does
\* not make the Reader fail.
C14_ContainerIsTakenOnce ==
  [][((TakeList \/ TakeObject) /\ mode = "free" /\ ~readerFailed)
       => (/\ ~readerFailed' /\ ~tokenizer'.crashed
           /\ IF TakesItsType /\ ~Held.v.consumed
              THEN /\ valid(HeldNext.v) /\ HeldNext.v.type = Held.v.type
                   /\ ~HeldNext.v.consumed
                   /\ frames'[Len(frames)].v.consumed
              ELSE /\ ~valid(HeldNext.v)
                   /\ tokenizer' = tokenizer
                   /\ frames'[Len(frames)].v = Held.v
                   /\ YieldsNothing(HeldNext, tokenizer'))]_vars

\* the root list was taken and read to its end, the List was destroyed, and
\* asList() was called on the root value again
C14_Witness ==
  /\ mode = "free" /\ ~readerFailed /\ Len(frames) = 2
  /\ frames[1].kind = "value" /\ frames[1].v.type = "List" /\ frames[1].v.consumed
  /\ Held.kind = "list" /\ ~valid(Held.v) /\ Held.stage = "new"
  /\ seen = <<EndEvent>>
(* ------------------------ skip() after the fact ------------------------- *)
\* C15: skip() on a value that is consumed already (by asList(), asObject() or
\* an earlier skip()) or that is a scalar, whose text parse() has read, leaves
\* the Tokenizer as it is: its position, its buffer and its aborted state do
\* not change, however often skip() is called.
C15_SkipOfConsumedIsNoOp ==
  [][(SkipValue /\ (Held.v.consumed \/ Held.v.type \notin {"List", "Object"}))
       => (/\ tokenizer' = tokenizer
           /\ HeldNext.v = [Held.v EXCEPT !.consumed = TRUE])]_vars

\* the root list of a well-formed document was skipped, and skipped again
C15_Witness ==
  /\ mode = "free" /\ doc.wf /\ ~readerFailed /\ steps = 3
  /\ Len(frames) = 1 /\ Held.stage = "new"
  /\ Held.v.type = "List" /\ Held.v.consumed
  /\ Cursor(tokenizer) = Len(doc.text)
(* --------------------- the longest string that is read ------------------ *)
TooLong == "String longer than maximum token length."

\* the document is the string of n characters 'x', or the object whose one
\* property has that string as its name
IsStringOf(n) == doc.text = Quoted(Xs(n))
IsNameOf(n) == doc.text = <<"{">> \o Quoted(Xs(n)) \o <<":", "7", "}">>
AroundLimit == (MAX_TOKEN_LENGTH - 1)..(MAX_TOKEN_LENGTH + 1)

\* the outcome the limit asks for: the token of n characters is read when n is
\* at most MAX_TOKEN_LENGTH, and refused with the reason TooLong otherwise
ReadOrRefused(n, token, v) ==
  IF n <= MAX_TOKEN_LENGTH
  THEN ~readerFailed' /\ ~tokenizer'.crashed /\ valid(v) /\ token = Xs(n)
  ELSE readerFailed' /\ tokenizer'.abortReason = TooLong /\ ~valid(v)

\* C16: a string value of exactly MAX_TOKEN_LENGTH characters is read, with its
\* content, and one of MAX_TOKEN_LENGTH + 1 characters makes the Reader fail
\* with the reason 'String longer than maximum token length.'; the same holds
\* for the name of a property.
C16_StringLengthBoundary ==
  [][\A n \in AroundLimit :
       /\ (ReaderBegin /\ IsStringOf(n))
            => (/\ ReadOrRefused(n, storedToken(tokenizer', 0), HeldNext.v)
                /\ n <= MAX_TOKEN_LENGTH => HeldNext.v.type = "String")
       /\ (Begin /\ Held.kind = "object" /\ IsNameOf(n) /\ ~readerFailed)
            => ReadOrRefused(n, propertyName(tokenizer'), HeldNext.v)]_vars
(* --------------------- the longest number that is read ------------------ *)
IsNumberOf(n) == doc.text = Ones(n)
IsListOfNumberOf(n) == doc.text = <<"[">> \o Ones(n) \o <<"]">>

\* the reasons that speak of the length of a token
LengthReasons == {TooLong}

\* the number of n digits is read when n is at most MAX_TOKEN_LENGTH, with all
\* its digits, and refused for its length otherwise
NumberReadOrRefused(n, v) ==
  IF n <= MAX_TOKEN_LENGTH
  THEN ~readerFailed' /\ ~tokenizer'.crashed /\ v.type = "Integer" /\ v.decimal = Ones(n)
  ELSE readerFailed' /\ tokenizer'.abortReason \in LengthReasons /\ ~valid(v)

\* C17: a number of exactly MAX_TOKEN_LENGTH characters is read with all its
\* digits; a number of MAX_TOKEN_LENGTH + 1 characters makes the Reader fail
\* with a reason that speaks of its length, and is not taken for the number its
\* first MAX_TOKEN_LENGTH characters spell.
C17_NumberLengthBoundary ==
  [][\A n \in AroundLimit :
       /\ (ReaderBegin /\ IsNumberOf(n)) => NumberReadOrRefused(n, HeldNext.v)
       /\ (Begin /\ Held.kind = "list" /\ IsListOfNumberOf(n) /\ ~readerFailed)
            => NumberReadOrRefused(n, HeldNext.v)]_vars
(* ------------------- what was written is what is read ------------------ *)
Reading == mode = "trip" /\ rpc \in {"start", "open", "ended"}

\* C18: when a value was built with the Writer without failure and ended with
\* end(), and its tokens are no longer than the Reader's token length, the
\* Reader reads the emitted text without failing and the caller sees the
\* values that were written: the same types in the same nesting and order,
\* with the same property names and the same contents.
C18_RoundTrip ==
  (Reading /\ doc.longest <= MAX_TOKEN_LENGTH) =>
    /\ ~tokenizer.crashed
    /\ ~readerFailed
    /\ IsPrefix(seen, doc.events)
    /\ (rpc = "ended" => seen = doc.events)
\* the Reader comes to the value at the next place of the written document,
\* and that value is a string whose escaped form fits the token length
ComesToString ==
  /\ ReaderBegin \/ Begin \/ Increment
  /\ mode = "trip" /\ ~readerFailed
  /\ HeldNext.pos \in 1..Len(doc.events)
  /\ doc.events[HeldNext.pos].type = "String"
  /\ Len(Escaped(doc.events[HeldNext.pos].text)) <= MAX_TOKEN_LENGTH

\* C19: a string s, with or without '"' and '\\' in it, whose escaped form is no
\* longer than the token length, written with string(s) as the root value, as
\* an element of a list or as the value of a property, is read by the Reader
\* as a String value with the content s, and the Reader does not fail.
C19_StringRoundTrip ==
  [][ComesToString
       => (/\ ~readerFailed' /\ ~tokenizer'.crashed
           /\ HeldNext.v.type = "String"
           /\ storedToken(tokenizer', 0) = doc.events[HeldNext.pos].text)]_vars
(* ----------------------------- after an abort -------------------------- *)
\* the buffer, its length, the stop position and positionInInput() are the same
SameScan(a, b) ==
  /\ a.buffer = b.buffer
  /\ a.bufferLength = b.bufferLength
  /\ a.stopPosition = b.stopPosition
  /\ positionInInput(a) = positionInInput(b)
  /\ a.aborted = b.aborted

\* character sets the Reader scans with
ScanSets == {WHITESPACE, {"\""}, {",", "]"}, NUMBER_CHARS, LITERAL_END}

\* every scan of the Tokenizer t is without effect and returns '\0'
ScansAreNeutral(t) ==
  /\ SameScan(t, tpop(t))
  /\ \A chars \in ScanSets :
       /\ SameScan(t, peek(t, chars)) /\ peek(t, chars).ret = NUL
       /\ SameScan(t, tskip(t, chars))
       /\ \A escapeChar \in {NUL, "\\"} :
            /\ SameScan(t, nextUntil(t, chars, escapeChar))
            /\ nextUntil(t, chars, escapeChar).ret = NUL
            /\ SameScan(t, nextWhile(t, chars, escapeChar))
            /\ nextWhile(t, chars, escapeChar).ret = NUL

\* C20: once the Tokenizer is aborted it stays aborted, so failed() stays true;
\* peek, pop, skip, nextUntil and nextWhile then leave the buffer, its length,
\* the stop position and positionInInput() as they are and peek, nextUntil and
\* nextWhile return '\0'; no call the Reader's caller makes changes them.
C20_AbortedTokenizerIsFrozen ==
  [][tokenizer.aborted
       => (/\ ScansAreNeutral(tokenizer)
           /\ tokenizer'.aborted /\ readerFailed'
           /\ SameScan(tokenizer, tokenizer'))]_vars

\* a document with a missing ':' was read to the end: the Reader failed at
\* the property and the caller's later calls and end() came after that
C20_Witness ==
  /\ mode = "full" /\ doc.text \in MissingColons
  /\ readerFailed /\ rpc = "ended"
(* --------------------- the diagnostics of a failure --------------------- *)
\* C21: once the Reader has failed, the reason and the stream position that
\* diagnostics() reports are those of that failure and stay so, whatever the
\* caller does afterwards with its values and iterators and with end().
C21_DiagnosticsKeepFirstFailure ==
  [][readerFailed
       => (/\ diagnostics(tokenizer').errorMessage = diagnostics(tokenizer).errorMessage
           /\ diagnostics(tokenizer').streamPosition
                = diagnostics(tokenizer).streamPosition)]_vars
(* -------------------- whitespace makes no difference ------------------- *)
\* C22: a well-formed document read with whitespace (space, CR, LF, TAB, also
\* in runs longer than the buffer) before, between or behind its tokens gives
\* the caller the same values as the document without it, and the same
\* failed() at the end: the run over the padded document does not break off,
\* and after end() what was seen and failed() are what they were for the
\* compact document.
C22_WhitespaceMakesNoDifference ==
  (mode = "spaced" /\ last # NoCall) =>
    /\ ~tokenizer.crashed
    /\ rpc = "ended" => (seen = last.arg /\ readerFailed = last.failedBefore)

\* C23: end() on a Writer that has no open container (fresh, or after a
\* complete root value, or after an earlier end()) writes nothing and leaves
\* failed() as it was, so that a second end() emits no closing character again.
C23_EndWithNothingOpenIsNoOp ==
  [][(last'.op = "end" /\ Scan(output).ctx = <<>>) =>
       (output' = output /\ failed' = failed)]_vars

(* ------------------------- scanning up to a stop ------------------------ *)
\* the number of escape characters that stand directly before position i
RECURSIVE EscapesBefore(_, _, _)
EscapesBefore(t, i, escapeChar) ==
  IF i > 0 /\ At(t, i - 1) = escapeChar THEN 1 + EscapesBefore(t, i - 1, escapeChar) ELSE 0

\* the positions of the buffered span (from the stop position to the
\* terminator) that hold a stop character which is not escaped
UnescapedStops(t, stopChars, escapeChar) ==
  {i \in t.stopPosition..(t.stopPosition + strcspn(t, t.stopPosition, {}) - 1) :
     At(t, i) \in stopChars /\ EscapesBefore(t, i, escapeChar) % 2 = 0}

Least(S) == CHOOSE i \in S : \A j \in S : i <= j

\* the scan u over the buffered span of t stopped where the claim says
StoppedAsClaimed(t, u, stopChars, escapeChar) ==
  IF UnescapedStops(t, stopChars, escapeChar) = {}
  THEN u.ret = NUL
  ELSE /\ u.ret = At(t, Least(UnescapedStops(t, stopChars, escapeChar)))
       /\ u.stopPosition = Least(UnescapedStops(t, stopChars, escapeChar))

\* nextUntil on t, seen from the buffered span it scans (after its shift and fill)
NextUntilAsClaimed(t, stopChars, escapeChar) ==
  (~t.aborted /\ ~t.crashed /\ ~shiftBufferToStopPosition(t).crashed) =>
    StoppedAsClaimed(fillBuffer(shiftBufferToStopPosition(t)),
                     nextUntil(t, stopChars, escapeChar), stopChars, escapeChar)

\* C24: nextUntil(stopChars, escapeChar) stops at the first buffered character
\* of stopChars that has an even number of escape characters directly before
\* it and returns it; when the buffered span has no such character, also when
\* it has escaped ones, it returns '\0'. Checked for the scan of a string's
\* content as Value::parse and Property::parse make it, in every state of the
\* Reader, at once, after a pop(), and after skip() and pop().
C24_NextUntilStopsAtUnescaped ==
  /\ NextUntilAsClaimed(tokenizer, {"\""}, "\\")
  /\ NextUntilAsClaimed(tpop(tokenizer), {"\""}, "\\")
  /\ NextUntilAsClaimed(tpop(tskip(tokenizer, WHITESPACE)), {"\""}, "\\")
  /\ NextUntilAsClaimed(tokenizer, {",", "]"}, NUL)

(* ----------------------- strings without their end --------------------- *)
\* the Tokenizer as Value::parse has it when it scans the content of a string:
\* after the skip() of begin() and the pop() of the opening quote
AtContent(t) == tpop(tskip(t, WHITESPACE))

\* the buffered span behind the opening quote holds an unescaped closing quote
ClosedInSpan(t) == UnescapedStops(AtContent(t), {"\""}, "\\") # {}

StartsWithQuote(t) == peek(tskip(t, WHITESPACE), {"\""}).ret = "\""

\* C25: Value::parse on an input that starts with '"' gives a String only when
\* an unescaped closing '"' lies in the buffered span; otherwise, also when the
\* span ends right behind an escaped quote, it aborts and the Value is Invalid.
C25_StringNeedsClosingQuote ==
  [][(ReaderBegin /\ StartsWithQuote(tokenizer)) =>
       \/ ClosedInSpan(tokenizer)
       \/ readerFailed' /\ ~tokenizer'.crashed /\ HeldNext.v.type = "Invalid"]_vars

(* --------------------------- the buffer's bounds ------------------------ *)
\* the stop position lies in the buffered text, the buffered text in the
\* buffer, and the terminator stands at the end of the buffered text
WithinBuffer(t) ==
  /\ ~t.crashed
  /\ 0 <= t.stopPosition /\ t.stopPosition <= t.bufferLength
  /\ t.bufferLength <= MAX_TOKEN_LENGTH
  /\ At(t, t.bufferLength) = NUL

\* the scan of a string's content by Value::parse, and its unescaping
ContentScanned(t) == nextUntil(AtContent(t), {"\""}, "\\")
ContentUnescaped(t) == handleEscapedChars(ContentScanned(t), "\\")

\* C26: after every Tokenizer primitive, on every input and call sequence of
\* the Reader, 0 <= stopPosition <= bufferLength <= maxTokenLength and the
\* buffer holds the terminator at position bufferLength. Checked after every
\* call of the Reader's caller, and after the skip, peek, pop, nextUntil and
\* handleEscapedChars with which Value::parse reads a string from there.
C26_BufferBoundsHold ==
  /\ WithinBuffer(tokenizer)
  /\ WithinBuffer(tskip(tokenizer, WHITESPACE))
  /\ WithinBuffer(peek(tskip(tokenizer, WHITESPACE), {"\""}))
  /\ WithinBuffer(nextWhile(tskip(tokenizer, WHITESPACE), NUMBER_CHARS, NUL))
  /\ StartsWithQuote(tokenizer) =>
       /\ WithinBuffer(AtContent(tokenizer))
       /\ WithinBuffer(ContentScanned(tokenizer))
       /\ ContentScanned(tokenizer).ret = "\"" => WithinBuffer(ContentUnescaped(tokenizer))

(* ------------------------------ block moves ----------------------------- *)
\* C27: every block move of the Tokenizer has a length that is not negative
\* and stays inside the buffer: shiftBufferToStopPosition is reached only with
\* stopPosition <= bufferLength and handleEscapedChars only with
\* stopPosition < bufferLength, so neither length wraps below zero.
C27_BlockMovesStayInside == ~tokenizer.crashed

(* ------------------------ unescaping in the buffer ---------------------- *)
\* the characters that make an escape of JSON together with the backslash
RecognisedEscapes == {"\"", "\\", "/", "b", "f", "n", "r", "t"}

\* the number of recognised escapes in the positions i .. upTo - 1 of the buffer
RECURSIVE Elided(_, _, _)
Elided(t, i, upTo) ==
  IF i >= upTo THEN 0
  ELSE IF At(t, i) = "\\"
       THEN (IF At(t, i + 1) \in RecognisedEscapes THEN 1 ELSE 0) + Elided(t, i + 2, upTo)
       ELSE Elided(t, i + 1, upTo)

\* the buffered text behind the scanned span and its stop position
TextBehind(t) ==
  [i \in 1..(t.bufferLength - t.stopPosition - 1) |-> At(t, t.stopPosition + i)]

\* b is a with the k elided characters of its span taken out and the rest of
\* the buffered text, with its terminator, moved up to the span
SpanClosedUp(a, b, k) ==
  /\ ~b.crashed
  /\ b.stopPosition = a.stopPosition - k
  /\ b.bufferLength = a.bufferLength - k
  /\ At(b, b.stopPosition) = NUL
  /\ TextBehind(b) = TextBehind(a)
  /\ At(b, b.bufferLength) = NUL

\* C28: handleEscapedChars over a scanned span with k elided characters lowers
\* bufferLength and stopPosition by exactly k and leaves the buffered text
\* behind the span the same characters as before, with the terminator
\* directly behind them. Checked for the content of every string and property
\* name that Value::parse and Property::parse come to scan.
C28_UnescapingClosesTheGap ==
  (StartsWithQuote(tokenizer) /\ ContentScanned(tokenizer).ret = "\""
     /\ ContentScanned(tokenizer).stopPosition < ContentScanned(tokenizer).bufferLength) =>
    SpanClosedUp(ContentScanned(tokenizer), ContentUnescaped(tokenizer),
                 Elided(ContentScanned(tokenizer), 0, ContentScanned(tokenizer).stopPosition))

(* --------------------------- strings with escapes ----------------------- *)
\* The Reader is given every string content of a small alphabet, all escapes
\* of JSON and some that are none among them, as the root value and as the
\* name and the value of a property.
MaxRaw == 3
MaxPair == 2

EscapeAlphabet == {"a", "\\", "\"", "/", "b", "f", "n", "r", "t", "u"}
PairAlphabet == {"a", "\\", "\"", "n", "u"}

\* the character a recognised escape stands for
EscapeOf(c) ==
  CASE c = "b" -> BS
    [] c = "f" -> "\f"
    [] c = "n" -> "\n"
    [] c = "r" -> "\r"
    [] c = "t" -> "\t"
    [] OTHER -> c

\* raw from position i on is the content of a string: every backslash has a
\* character behind it and no quote stands without one
RECURSIVE IsContent(_, _)
IsContent(raw, i) ==
  IF i > Len(raw) THEN TRUE
  ELSE IF raw[i] = "\\" THEN i < Len(raw) /\ IsContent(raw, i + 2)
  ELSE raw[i] # "\"" /\ IsContent(raw, i + 1)

\* the characters the content raw stands for, from position i on
RECURSIVE Meant(_, _)
Meant(raw, i) ==
  IF i > Len(raw) THEN <<>>
  ELSE IF raw[i] = "\\"
       THEN (IF raw[i + 1] \in RecognisedEscapes THEN <<EscapeOf(raw[i + 1])>>
             ELSE <<"\\", raw[i + 1]>>) \o Meant(raw, i + 2)
       ELSE <<raw[i]>> \o Meant(raw, i + 1)

\* the number of recognised escapes in raw, from position i on
RECURSIVE Recognised(_, _)
Recognised(raw, i) ==
  IF i > Len(raw) THEN 0
  ELSE IF raw[i] = "\\"
       THEN (IF raw[i + 1] \in RecognisedEscapes THEN 1 ELSE 0) + Recognised(raw, i + 2)
       ELSE Recognised(raw, i + 1)

Contents(alphabet, n) ==
  {raw \in UNION {[1..k -> alphabet] : k \in 0..n} : IsContent(raw, 1)}

EscapeLeaf(raw) == StringLeaf([raw |-> raw, text |-> Meant(raw, 1)])

EscapeTrees ==
  {EscapeLeaf(raw) : raw \in Contents(EscapeAlphabet, MaxRaw)}
  \cup {ObjectOf(<<Named(EscapeLeaf(raw), [raw |-> nraw, text |-> Meant(nraw, 1)])>>) :
          raw \in Contents(PairAlphabet, MaxPair), nraw \in Contents(PairAlphabet, MaxPair)}

EscapeInit ==
  /\ WriterInit
  /\ last = NoCall
  /\ plan = <<>>
  /\ budget = 0
  /\ nestLeft = 0
  /\ mode = "full"
  /\ \E tree \in EscapeTrees :
       doc = Doc(Render(tree, FALSE), TRUE, LongestToken(tree), Events(tree))
  /\ tokenizer = TokenizerInit(doc.text, 0)
  /\ frames = <<>>
  /\ seen = <<>>
  /\ rpc = "start"
  /\ steps = 0

EscapeNext ==
  \/ ReaderBegin
  \/ Visit
  \/ TakeObject
  \/ Begin
  \/ Increment
  \/ LeaveIterator
  \/ LeaveContainer
  \/ LeaveRoot
  \/ ReaderEnd

EscapeSpec == EscapeInit /\ [][EscapeNext]_vars

\* the document is one string; its content as written in the input
IsRootString == doc.text[1] = "\""
RawContent == SubSeq(doc.text, 2, Len(doc.text) - 1)

\* C29: the Reader replaces each of the escapes \" \\ \/ \b \f \n \r \t by its
\* one character and keeps every other sequence of a backslash and a character
\* (\u among them) as these two characters; the stored token is shorter than
\* the content in the input by exactly the number of recognised escapes.
C29_EscapesAreReplaced ==
  (IsRootString /\ rpc # "start") =>
    /\ ~tokenizer.crashed /\ ~readerFailed
    /\ storedToken(tokenizer, 0) = Meant(RawContent, 1)
    /\ Len(storedToken(tokenizer, 0)) = Len(RawContent) - Recognised(RawContent, 1)

\* a string with a recognised escape and a character behind it was read
C29_Witness ==
  /\ IsRootString /\ rpc = "ended"
  /\ RawContent = <<"\\", "/", "a">>
  /\ storedToken(tokenizer, 0) = <<"/", "a">>

(* ------------------------ the two stored tokens ------------------------ *)
\* the caller holds a property with a string value
AtStringProperty ==
  /\ Holding /\ Held.kind = "objectIterator"
  /\ valid(Held.v) /\ Held.v.type = "String"
  /\ ~readerFailed /\ ~tokenizer.crashed

\* storeToken(index) on t writes the slot of index and no other one, and
\* nothing at all for an index that has no slot
StoresOneSlot(t, index) ==
  IF index < MAX_TOKENS
  THEN /\ storeToken(t, index).tokenStorage[index] = current(t)
       /\ \A other \in (0..(MAX_TOKENS - 1)) \ {index} :
            storeToken(t, index).tokenStorage[other] = t.tokenStorage[other]
  ELSE storeToken(t, index) = t

\* C30: after Property::parse succeeded on a property with a string value,
\* name() is the unescaped name (slot 1) and asString() the unescaped value
\* (slot 0), both at the same time; storing into one slot never changes the
\* other, and storeToken with an index out of range changes no slot.
C30_NameAndValueAreKeptApart ==
  /\ AtStringProperty =>
       /\ propertyName(tokenizer) = doc.events[Held.pos].name
       /\ storedToken(tokenizer, 0) = doc.events[Held.pos].text
  /\ \A index \in 0..(MAX_TOKENS + 1) : StoresOneSlot(tokenizer, index)

\* a property whose name and value both hold an escape, and differ, was read
C30_Witness ==
  /\ AtStringProperty
  /\ propertyName(tokenizer) = <<"\"">>
  /\ storedToken(tokenizer, 0) = <<"\n">>

(* ------------------------------ short writes ---------------------------- *)
\* The Output takes MaxRoom characters at most before it reports a short
\* write; the caller makes the calls of Spec.
MaxRoom == 4

ShortInit ==
  /\ failed = FALSE
  /\ stack = [i \in 0..(MAX_STACK - 1) |-> "None"]
  /\ stackIndex = 0
  /\ allowed = ValueOps
  /\ output = <<>>
  /\ room \in 0..MaxRoom
  /\ oob = FALSE
  /\ last = NoCall
  /\ plan = <<>>
  /\ \/ budget = MaxCalls /\ nestLeft = 0
     \/ budget = MaxTail /\ nestLeft = MaxNest
  /\ ReaderIdle

ShortSpec == ShortInit /\ [][Next]_vars

\* the Output has reported its short write
ShortWriteSeen == room < 0

\* C31: when the Output reports a short write for a character or text the
\* Writer emits, failed() is true at the end of that call and the Writer makes
\* no further write, neither in the rest of that call (the Output has received
\* just the characters it took up to and at the short write) nor in any later
\* call.
C31_ShortWriteStopsTheWriter ==
  [][/\ (~ShortWriteSeen /\ ShortWriteSeen') =>
          (failed' /\ Len(output') = Len(output) + room)
     /\ ShortWriteSeen => (failed /\ failed' /\ output' = output)]_vars

\* a call ran into the short write in the middle of its text, and the caller
\* made a further call after it
C31_Witness ==
  /\ ShortWriteSeen /\ failed /\ last.failedBefore
  /\ last.op \in {"null", "close", "end", "string"}
  /\ output \in {<<"[", "n", "u">>, <<"[", "\"", "\\">>}

(* --------------------------- the stack's bounds ------------------------- *)
\* C32: after any sequence of Writer calls every read and write of the stack
\* of container states used an index in 0..MAX_STACK-1: opening a container
\* never stores behind the last slot, and closing a container, the root
\* container included, never takes the stack index below 0.
C32_StackIndexInRange == InRange(stackIndex) /\ ~oob

(* ------------------- an Input that delivers in pieces ------------------ *)
\* The caller reads a document from an Input whose readString delivers all
\* that is asked for, and then the same characters from an Input whose
\* readString delivers at most chunk characters at a time.
MaxChunk == 2

ChunkInit ==
  /\ WriterInit
  /\ last = NoCall
  /\ plan = <<>>
  /\ budget = 0
  /\ nestLeft = 0
  /\ mode = "full" /\ doc \in Docs
  /\ tokenizer = TokenizerInit(doc.text, 0)
  /\ frames = <<>>
  /\ seen = <<>>
  /\ rpc = "start"
  /\ steps = 0

\* a Reader over the same characters, delivered in pieces
AgainInPieces ==
  /\ mode = "full" /\ rpc = "ended" /\ last = NoCall
  /\ last' = [op |-> "read", arg |-> seen, failedBefore |-> tokenizer.aborted]
  /\ \E chunk \in 1..MaxChunk : tokenizer' = TokenizerInit(doc.text, chunk)
  /\ frames' = <<>>
  /\ seen' = <<>>
  /\ rpc' = "start"
  /\ UNCHANGED <<wvars, budget, nestLeft, plan, mode, doc, steps>>

ChunkNext ==
  \/ ReaderBegin
  \/ Visit
  \/ TakeList
  \/ TakeObject
  \/ Begin
  \/ Increment
  \/ LeaveIterator
  \/ LeaveContainer
  \/ LeaveRoot
  \/ ReaderEnd
  \/ AgainInPieces

ChunkSpec == ChunkInit /\ [][ChunkNext]_vars

\* C33: what the Reader gives for a document (the types and contents of its
\* values, and failed()) does not depend on how the Input delivers it: an
\* Input whose bulk reads return fewer characters than asked for, down to one
\* at a time while more are available, gives the same outcome as an Input
\* that returns everything asked for.
C33_DeliveryMakesNoDifference ==
  (tokenizer.chunk > 0 /\ last # NoCall) =>
    /\ ~tokenizer.crashed
    /\ rpc = "ended" => (seen = last.arg /\ readerFailed = last.failedBefore)

(* ------------------- a container dropped without begin() ---------------- *)
\* the caller holds a list or an object it has just taken with asList() or
\* asObject() from a value of a well-formed document, and has not called
\* begin() on it
HoldsUnbegun ==
  /\ Holding /\ IsContainer(Held) /\ mode = "free" /\ doc.wf
  /\ Held.stage = "new" /\ valid(Held.v)
  /\ AtItsPlace(frames[Len(frames) - 1], tokenizer)
  /\ ~readerFailed

\* C34: when the caller takes a container with asList() or asObject() from a
\* List or Object value of a well-formed document and drops it without ever
\* calling begin(), the content of the container is read over all the same:
\* no abort occurs and the Tokenizer stands right behind the closing bracket
\* or brace that matches, where the next sibling parses.
C34_DroppedContainerIsDrained ==
  [][(LeaveContainer /\ HoldsUnbegun)
       => (/\ ~readerFailed' /\ ~tokenizer'.crashed
           /\ Cursor(tokenizer') = BehindContainer(doc, Held.pos + 1))]_vars

(* ------------------------ the text of written strings ------------------- *)
\* The caller writes strings and property names of up to MaxText characters,
\* backslashes, quotes and a line feed among them, at the root, in a list and
\* in an object.
MaxText == 2
MaxTextCalls == 2

TextAlphabet == {"a", "\\", "\"", "/", "\n"}
Texts == UNION {[1..n -> TextAlphabet] : n \in 0..MaxText}

TextInit ==
  /\ WriterInit
  /\ last = NoCall
  /\ plan = <<>>
  /\ budget = MaxTextCalls
  /\ nestLeft = 0
  /\ ReaderIdle

openListFor == Call("openList", <<>>, evaluate(W, OPEN_LIST, <<>>))
stringOf == \E s \in Texts : Call("string", s, evaluate(W, INSERT_STRING, s))
propertyOf == \E n \in Texts : Call("property", n, evaluate(W, START_PROPERTY, n))

TextNext ==
  \/ openListFor
  \/ openObject
  \/ stringOf
  \/ propertyOf

TextSpec == TextInit /\ [][TextNext]_vars

\* s from position i on, with a backslash before every backslash and quote
RECURSIVE Backslashed(_, _)
Backslashed(s, i) ==
  IF i > Len(s) THEN <<>>
  ELSE (IF s[i] \in {"\\", "\""} THEN <<"\\", s[i]>> ELSE <<s[i]>>) \o Backslashed(s, i + 1)

NeedBackslash(s) == Cardinality({i \in 1..Len(s) : s[i] \in {"\\", "\""}})

\* the call has added text to the output, behind a ',' where one is due
Added(text) ==
  \E sep \in {<<>>, <<",">>} : output' = output \o sep \o text

\* C35: string(s) and property(name) emit the text between double quotes
\* with a backslash before every backslash and every quote and every other
\* character as it is, in order: len + 2 + (number of backslashes and quotes)
\* characters, and a ':' behind a property name.
C35_WrittenTextIsEscaped ==
  [][/\ (last'.op = "string" /\ ~failed /\ ~failed') =>
          /\ Added(<<"\"">> \o Backslashed(last'.arg, 1) \o <<"\"">>)
          /\ Len(output') - Len(output) \in
               {n + Len(last'.arg) + 2 + NeedBackslash(last'.arg) : n \in {0, 1}}
     /\ (last'.op = "property" /\ ~failed /\ ~failed') =>
          /\ Added(<<"\"">> \o Backslashed(last'.arg, 1) \o <<"\"", ":">>)
          /\ Len(output') - Len(output) \in
               {n + Len(last'.arg) + 3 + NeedBackslash(last'.arg) : n \in {0, 1}}]_vars

\* the string of a backslash and a quote was written
C35_Witness ==
  /\ last.op = "string" /\ ~failed
  /\ last.arg = <<"\\", "\"">>
  /\ output = <<"\"", "\\", "\\", "\\", "\"", "\"">>
====
